---- MODULE Spec2Model ----
(***************************************************************************)
(* Aegis: launch and supervision of inference-server instances.           *)
(*                                                                         *)
(* The module models these parts of the repository:                        *)
(*   - launcher.launch_instances with the readiness barrier                *)
(*     launcher._wait_for_instances            (specification SpecLaunch), *)
(*   - registry.service_registry.ServiceRegistry, its operations run one   *)
(*     at a time                              (specification SpecRegistry), *)
(*   - the same registry operations run by concurrent callers, one store   *)
(*     access per step                      (specification SpecConcurrent), *)
(*   - the registry with its read operations    (specification SpecQueries), *)
(*   - heartbeat.run_heartbeat_all            (specification SpecHeartbeat), *)
(*   - scheduler.wait_for_endpoints             (specification SpecJobWait), *)
(*   - the two readers of the endpoints file    (specification SpecReaders), *)
(*   - cli.cmd_submit with scheduler.submit_job and submit_job_remote        *)
(*                                               (specification SpecSubmit), *)
(*   - cli.cmd_submit and cli.cmd_shutdown with the SSHConnection they      *)
(*     open, the wait included                  (specification SpecSession), *)
(*   - cli.cmd_bench                              (specification SpecBench), *)
(*   - cli._build_config                          (specification SpecBuild), *)
(*   - the start of the launcher and of the heartbeat process, up to and    *)
(*     including their first health updates     (specification SpecStartup), *)
(*   - cli.cmd_submit --wait over an endpoints file left by an earlier run   *)
(*                                             (specification SpecResubmit). *)
(*                                                                         *)
(* Time is counted in abstract ticks.  Node names are the positions of the *)
(* nodes in the de-duplicated PBS node file (1-based): node k of the model  *)
(* is nodes[k-1] of the Python list.                                       *)
(***************************************************************************)
EXTENDS Integers, Sequences, FiniteSets, TLC

VARIABLES
    \* ---- launcher.launch_instances ----
    config,         \* AegisConfig: [models, port_start]
    nodes,          \* _get_allocated_nodes(): sequence of distinct node names
    pc,             \* position in launch_instances / _wait_for_instances
    redis_started,  \* _start_redis has run
    model_i,        \* index (1-based) of the model of the outer for loop
    inst_j,         \* j of the inner for loop (0-based)
    instance_idx,   \* launch_instances local
    node_offset,    \* launch_instances local
    endpoints,      \* launch_instances local: sequence of <<node, port>>
    tmp_files,      \* files written (scripts and hostfiles), in order
    fs,             \* the tmp files that exist on the shared filesystem
    processes,      \* Popen'ed mpiexec processes, in order
    \* ---- launcher._wait_for_instances ----
    ready,          \* set of endpoints that answered 200
    deadline,       \* time.monotonic() + timeout
    cycle,          \* polling cycle counter
    ep_i,           \* position of the for loop over endpoints (1-based)
    polled,         \* endpoints probed in the current cycle
    slept,          \* number of time.sleep calls of this wait
    last_probe,     \* the last probe made: <<endpoint, outcome>> or <<>>
    \* ---- clock ----
    now,            \* time.monotonic() / time.time(), in ticks
    \* ---- Redis store used by ServiceRegistry ----
    store,          \* service:{id} hashes: id -> (field -> value), << >> = no key
    active,         \* services:active
    typeIdx,        \* services:type:{type}: type -> set of ids
    \* ---- callers of the registry ----
    op,             \* SpecRegistry: the last completed operation and its result
    procs,          \* SpecConcurrent: per caller, its call, position and locals
    start,          \* SpecConcurrent: the registry when the callers started
    \* ---- heartbeat.run_heartbeat_all ----
    hb_endpoints,   \* endpoints: sequence of service ids (host and port follow
                    \* from the id)
    last_statuses,  \* run_heartbeat_all local: service id -> ServiceStatus
    hb_pc,          \* position in run_heartbeat_all
    hb_i,           \* position of the for loop over endpoints (1-based)
    hb_status,      \* run_heartbeat_all local `status`: the status classified
    hb_cycle,       \* number of the current cycle of the while loop
    stderr,         \* the [heartbeat] lines printed: <<service id, from, to>>
    hb_events,      \* what the current cycle has done so far, in order
    classified,     \* service id -> the statuses classified for it so far
    probed,         \* service id -> what its probes ended in so far
    \* ---- scheduler.wait_for_endpoints ----
    job_pc,         \* position in wait_for_endpoints
    ssh,            \* an SSHConnection is given
    endpoints_file, \* what the endpoints file holds
    job_tracked,    \* the scheduler knows the job
    qstat,          \* what `qstat -f job_id` gives at this moment
    last_state,     \* wait_for_endpoints local
    observed,       \* the job states the polls have seen, in order
    local_copy,     \* scp_from has copied the endpoints file
    job_result,     \* the value returned or the exit of wait_for_endpoints
    \* ---- scheduler.SSHConnection ----
    ssh_conn,       \* the ControlMaster session: its state, how often it was
                    \* opened and closed, and whether a remote command or
                    \* transfer was issued while it was not open
    \* ---- cli.py: one invocation of a subcommand ----
    args,           \* the parsed arguments and the inputs the command reads
    cli_pc,         \* position in the command function
    cli             \* the locals of the command function and its outcome

launchLocals == <<config, nodes, redis_started, model_i, inst_j, instance_idx,
                  node_offset, endpoints, tmp_files, fs, processes>>
launchVars == <<pc, launchLocals>>
waitVars == <<ready, deadline, cycle, ep_i, polled, slept, last_probe>>
regVars == <<store, active, typeIdx>>
callVars == <<op, procs, start>>
monitorVars == <<hb_endpoints, last_statuses, hb_pc, hb_i, hb_status, hb_cycle,
                 stderr, hb_events, classified, probed>>
jobVars == <<job_pc, ssh, endpoints_file, job_tracked, qstat, last_state,
             observed, local_copy, job_result>>
cliVars == <<args, cli_pc, cli>>
vars == <<launchVars, waitVars, now, regVars, callVars, monitorVars, jobVars,
          ssh_conn, cliVars>>

-----------------------------------------------------------------------------
(* Bounds of the model *)

MaxTime == 1          \* SpecRegistry: the clock runs from 0 to MaxTime

MaxModels == 2        \* models in a configuration
MaxInstances == 2     \* instances of one model
MaxNodes == 4         \* allocated nodes
WaitTimeout == 2      \* timeout of _wait_for_instances, in ticks
PollInterval == 1     \* poll_interval of _wait_for_instances, in ticks
ProbeTimeout == 1     \* longest time one health probe takes, in ticks

(* Program constants *)

GPUS_PER_NODE == 12
PortStart == 8000

\* tensor_parallel_size values: 0, a full node, one GPU more than a node
TPValues == {0, GPUS_PER_NODE, GPUS_PER_NODE + 1}

Min(a, b) == IF a <= b THEN a ELSE b

\* Python's s[a:b] for 0 <= a <= b: no error when b is past the end
PySlice(s, a, b) == SubSeq(s, a + 1, Min(b, Len(s)))

Range(s) == {s[k] : k \in DOMAIN s}

-----------------------------------------------------------------------------
(* config.py *)

\* ModelConfig.nodes_per_instance: math.ceil(tensor_parallel_size / GPUS_PER_NODE)
nodes_per_instance(m) ==
    (m.tensor_parallel_size + GPUS_PER_NODE - 1) \div GPUS_PER_NODE

RECURSIVE SumNodes(_)
SumNodes(ms) ==
    IF ms = << >> THEN 0
    ELSE Head(ms).instances * nodes_per_instance(Head(ms)) + SumNodes(Tail(ms))

\* AegisConfig.nodes_needed
nodes_needed(cfg) == SumNodes(cfg.models)

ModelConfigs == [instances : 0..MaxInstances, tensor_parallel_size : TPValues]

\* cmd_launch refuses an empty models list before it calls launch_instances
ModelLists == UNION {[1..n -> ModelConfigs] : n \in 1..MaxModels}

-----------------------------------------------------------------------------
(* registry/service_registry.py: values *)

\* ServiceStatus
HEALTHY == "healthy"
UNHEALTHY == "unhealthy"
STARTING == "starting"
STOPPING == "stopping"
UNKNOWN == "unknown"
ServiceStatus == {HEALTHY, UNHEALTHY, STARTING, STOPPING, UNKNOWN}

\* Python's None, and the result of get_service when there is no usable record
None == [none |-> TRUE]

\* None where the argument is a string (service_type, status_filter)
NoneStr == "None"

\* the empty dict / a Redis key that does not exist
Empty == [k \in {} |-> 0]

\* str(x), float(s) / int(s), json.dumps(d), json.loads(s): Redis stores strings
Str(x) == [str |-> x]
Num(s) == s.str
JsonDumps(d) == [json |-> d]
JsonLoads(s) == s.json

\* dict.update / the mapping of an HSET laid over the fields already stored
Merge(f, g) ==
    [k \in DOMAIN f \cup DOMAIN g |-> IF k \in DOMAIN g THEN g[k] ELSE f[k]]

\* ServiceInfo(...), __post_init__ done by the caller's arguments
ServiceInfo(id, host, port, type, status, last_seen, metadata) ==
    [service_id |-> id, host |-> host, port |-> port, service_type |-> type,
     status |-> status, last_seen |-> last_seen, metadata |-> metadata]

\* ServiceInfo.to_dict
to_dict(info) ==
    [service_id |-> info.service_id, host |-> info.host, port |-> Str(info.port),
     service_type |-> info.service_type, status |-> info.status,
     last_seen |-> Str(info.last_seen), metadata |-> JsonDumps(info.metadata)]

\* the fields ServiceInfo.from_dict cannot do without: a missing last_seen or
\* port is a KeyError, a missing positional field a TypeError
RequiredFields == {"service_id", "host", "port", "service_type", "last_seen"}

\* ServiceInfo.from_dict on a hash that holds the required fields
from_dict(data) ==
    [service_id |-> data.service_id, host |-> data.host, port |-> Num(data.port),
     service_type |-> data.service_type,
     status |-> IF "status" \in DOMAIN data THEN data.status ELSE HEALTHY,
     last_seen |-> Num(data.last_seen),
     metadata |-> IF "metadata" \in DOMAIN data
                  THEN JsonLoads(data.metadata) ELSE Empty]

-----------------------------------------------------------------------------
(* Redis commands on the registry keys.  R is [store, active, typeIdx].     *)

Exists(R, id) == id \in DOMAIN R.store

HGetAll(R, id) == IF Exists(R, id) THEN R.store[id] ELSE Empty

HGet(R, id, field) ==
    IF Exists(R, id) /\ field \in DOMAIN R.store[id]
    THEN R.store[id][field] ELSE None

\* HSET key mapping: creates the key when it does not exist
HSet(R, id, mapping) ==
    [R EXCEPT !.store =
        [k \in DOMAIN R.store \cup {id} |->
            IF k = id THEN Merge(HGetAll(R, id), mapping) ELSE R.store[k]]]

Delete(R, id) ==
    [R EXCEPT !.store = [k \in DOMAIN R.store \ {id} |-> R.store[k]]]

SAddActive(R, id) == [R EXCEPT !.active = @ \cup {id}]
SRemActive(R, id) == [R EXCEPT !.active = @ \ {id}]
SAddType(R, type, id) == [R EXCEPT !.typeIdx[type] = @ \cup {id}]
SRemType(R, type, id) == [R EXCEPT !.typeIdx[type] = @ \ {id}]

-----------------------------------------------------------------------------
(* ServiceRegistry: each method as the sequence of its Redis commands *)

\* get_service: None when the key is missing, and when from_dict raises
get_service(R, id) ==
    LET data == HGetAll(R, id) IN
    IF data = Empty THEN None
    ELSE IF RequiredFields \subseteq DOMAIN data THEN from_dict(data)
    ELSE None

\* (faulty variant) a record that exists is not written again
register_hset_KeepFirst(R, info) ==
    IF Exists(R, info.service_id) THEN R
    ELSE HSet(R, info.service_id, to_dict(info))

\* register_service, command by command
register_hset(R, info) == HSet(R, info.service_id, to_dict(info))
register_sadd_active(R, info) == SAddActive(R, info.service_id)
register_sadd_type(R, info) == SAddType(R, info.service_type, info.service_id)

register_service(R, info) ==
    register_sadd_type(register_sadd_active(register_hset(R, info), info), info)

\* deregister_service, command by command; service_info is the record read first
deregister_srem_active(R, id) == SRemActive(R, id)
deregister_srem_type(R, id, service_info) ==
    SRemType(R, service_info.service_type, id)
deregister_delete(R, id) == Delete(R, id)

deregister_service(R, id) ==
    LET service_info == get_service(R, id) IN
    IF service_info = None THEN [reg |-> R, ret |-> FALSE]
    ELSE [reg |-> deregister_delete(
                      deregister_srem_type(
                          deregister_srem_active(R, id), id, service_info), id),
          ret |-> TRUE]

\* (faulty variant) the given metadata replaces the stored metadata
merged_metadata_Replace(current, metadata) == JsonDumps(metadata)

\* update_health: the value written for 'metadata'; current is the HGET result
merged_metadata(current, metadata) ==
    IF current # None
    THEN JsonDumps(Merge(JsonLoads(current), metadata))
    ELSE JsonDumps(metadata)

\* update_health: the mapping of its HSET
health_updates(status, t, metadata, current) ==
    IF metadata # None /\ metadata # Empty
    THEN [status |-> status, last_seen |-> Str(t),
          metadata |-> merged_metadata(current, metadata)]
    ELSE [status |-> status, last_seen |-> Str(t)]

update_health(R, id, status, metadata, t) ==
    IF ~Exists(R, id) THEN [reg |-> R, ret |-> FALSE]
    ELSE [reg |-> HSet(R, id, health_updates(status, t, metadata,
                                             HGet(R, id, "metadata"))),
          ret |-> TRUE]

\* (faulty variant) the key is written without the EXISTS test
heartbeat_NoCheck(R, id, t) ==
    [reg |-> HSet(R, id, [last_seen |-> Str(t)]), ret |-> TRUE]

heartbeat(R, id, t) ==
    IF ~Exists(R, id) THEN [reg |-> R, ret |-> FALSE]
    ELSE [reg |-> HSet(R, id, [last_seen |-> Str(t)]), ret |-> TRUE]

\* list_services, as the set of the records it returns (SMEMBERS has no order)
list_services(R, service_type, status_filter) ==
    LET service_ids == IF service_type # NoneStr
                       THEN R.typeIdx[service_type] ELSE R.active
    IN {s \in {get_service(R, id) : id \in service_ids} :
            /\ s # None
            /\ status_filter = NoneStr \/ s.status = status_filter}

\* check_health: the dictionary returned; t is time.time() at the call.
\* round(x, 2) leaves a whole number of ticks as it is
check_health(R, id, timeout_seconds, t) ==
    LET service == get_service(R, id) IN
    IF service = None
    THEN [service_id |-> id, exists |-> FALSE, status |-> None,
          is_responsive |-> FALSE, last_seen |-> None,
          seconds_since_heartbeat |-> None, timeout_seconds |-> timeout_seconds]
    ELSE [service_id |-> id, exists |-> TRUE, status |-> service.status,
          is_responsive |-> t - service.last_seen < timeout_seconds,
          last_seen |-> service.last_seen,
          seconds_since_heartbeat |-> t - service.last_seen,
          timeout_seconds |-> timeout_seconds]

\* get_healthy_services, as the set of the records it returns
get_healthy_services(R, service_type, timeout_seconds, t) ==
    {service \in list_services(R, service_type, NoneStr) :
        service.status = HEALTHY /\ t - service.last_seen < timeout_seconds}

\* get_service_count: SCARD of the type set or of the active set
get_service_count(R, service_type) ==
    IF service_type # NoneStr
    THEN Cardinality(R.typeIdx[service_type]) ELSE Cardinality(R.active)

-----------------------------------------------------------------------------
(* launcher.py: the placement computed by launch_instances *)

\* (faulty variant) the port is the base port for every instance
InstancePort_NoIndex(cfg, idx) == cfg.port_start

\* port = config.port_start + instance_idx
InstancePort(cfg, idx) == cfg.port_start + idx

\* (faulty variant) the slice is taken without the running offset
InstanceNodes_NoOffset(ns, offset, npi) == PySlice(ns, 0, npi)

\* instance_nodes = nodes[node_offset : node_offset + npi]
InstanceNodes(ns, offset, npi) == PySlice(ns, offset, offset + npi)

\* (instance_nodes[0], port)
InstanceEndpoint(instance_nodes, port) == <<instance_nodes[1], port>>

\* f"vllm-{node}-{port}"
ServiceId(e) == <<"vllm", e[1], e[2]>>

\* the order in which the nested for loops visit the models: model k is
\* visited models[k].instances times
RECURSIVE LoopOrder(_, _)
LoopOrder(ms, k) ==
    IF k > Len(ms) THEN << >>
    ELSE [x \in 1..ms[k].instances |-> k] \o LoopOrder(ms, k + 1)

\* (faulty variant) the node offset advances by one node per instance
RECURSIVE ModelLookup_OneNodeEach(_, _, _, _, _, _)
ModelLookup_OneNodeEach(cfg, ns, order, k, offset, acc) ==
    IF k > Len(order) THEN [raised |-> FALSE, lookup |-> acc]
    ELSE IF offset + 1 > Len(ns) THEN [raised |-> TRUE, lookup |-> acc]
    ELSE ModelLookup_OneNodeEach(cfg, ns, order, k + 1, offset + 1,
                     Merge(acc, <<ns[offset + 1], InstancePort(cfg, k - 1)>>
                                    :> order[k]))

\* _register_instances: model_lookup, (head_node, port) -> index of the model;
\* nodes[node_offset] past the end is an IndexError
RECURSIVE ModelLookup(_, _, _, _, _, _)
ModelLookup(cfg, ns, order, k, offset, acc) ==
    IF k > Len(order) THEN [raised |-> FALSE, lookup |-> acc]
    ELSE IF offset + 1 > Len(ns) THEN [raised |-> TRUE, lookup |-> acc]
    ELSE ModelLookup(cfg, ns, order, k + 1,
                     offset + nodes_per_instance(cfg.models[order[k]]),
                     Merge(acc, <<ns[offset + 1], InstancePort(cfg, k - 1)>>
                                    :> order[k]))

\* _register_instances: the metadata attached to endpoint e
InstanceMetadata(cfg, lookup, e) ==
    IF e \in DOMAIN lookup
    THEN [model |-> lookup[e],
          tensor_parallel_size |-> cfg.models[lookup[e]].tensor_parallel_size]
    ELSE Empty

\* _register_instances: the loop over endpoints
RECURSIVE RegisterAll(_, _, _, _, _, _)
RegisterAll(R, cfg, lookup, eps, status, t) ==
    IF eps = << >> THEN R
    ELSE RegisterAll(
            register_service(R, ServiceInfo(ServiceId(Head(eps)), Head(eps)[1],
                                            Head(eps)[2], "vllm", status, t,
                                            InstanceMetadata(cfg, lookup, Head(eps)))),
            cfg, lookup, Tail(eps), status, t)

\* _update_instances_status: the loop over endpoints
RECURSIVE UpdateAll(_, _, _, _)
UpdateAll(R, eps, status, t) ==
    IF eps = << >> THEN R
    ELSE UpdateAll(update_health(R, ServiceId(Head(eps)), status, None, t).reg,
                   Tail(eps), status, t)

-----------------------------------------------------------------------------
(* State shared by the specifications *)

ServiceTypes == {"vllm", "router"}

Reg == [store |-> store, active |-> active, typeIdx |-> typeIdx]

SetReg(R) ==
    /\ store' = R.store
    /\ active' = R.active
    /\ typeIdx' = R.typeIdx

EmptyRegistry ==
    /\ store = Empty
    /\ active = {}
    /\ typeIdx = [t \in ServiceTypes |-> {}]

NoWait ==
    /\ ready = {}
    /\ deadline = 0
    /\ cycle = 0
    /\ ep_i = 0
    /\ polled = {}
    /\ slept = 0
    /\ last_probe = << >>

NoLaunch ==
    /\ config = [models |-> << >>, port_start |-> PortStart]
    /\ nodes = << >>
    /\ pc = "none"
    /\ redis_started = FALSE
    /\ model_i = 0
    /\ inst_j = 0
    /\ instance_idx = 0
    /\ node_offset = 0
    /\ endpoints = << >>
    /\ tmp_files = << >>
    /\ fs = {}
    /\ processes = << >>

NoMonitor ==
    /\ hb_endpoints = << >>
    /\ last_statuses = Empty
    /\ hb_pc = "none"
    /\ hb_i = 0
    /\ hb_status = NoneStr
    /\ hb_cycle = 0
    /\ stderr = << >>
    /\ hb_events = << >>
    /\ classified = Empty
    /\ probed = Empty

NoJob ==
    /\ job_pc = "none"
    /\ ssh = FALSE
    /\ endpoints_file = "absent"
    /\ job_tracked = FALSE
    /\ qstat = NoneStr
    /\ last_state = NoneStr
    /\ observed = << >>
    /\ local_copy = FALSE
    /\ job_result = None

\* no SSHConnection object
NoConnection == [state |-> "none", opens |-> 0, closes |-> 0, stray |-> FALSE]

NoCli ==
    /\ ssh_conn = NoConnection
    /\ args = None
    /\ cli_pc = "none"
    /\ cli = None

NoOp == [name |-> "none"]

NoCalls ==
    /\ op = NoOp
    /\ procs = Empty
    /\ start = None

-----------------------------------------------------------------------------
(* launcher.launch_instances *)

InitLaunch ==
    /\ NoLaunch
    /\ NoWait
    /\ now = 0
    /\ EmptyRegistry
    /\ NoCalls
    /\ NoMonitor
    /\ NoJob
    /\ NoCli

\* cli.cmd_launch: the configuration is built, an empty models list is
\* refused, and launch_instances is entered; its line 255 reads the
\* de-duplicated node file
CmdLaunch ==
    /\ pc = "none"
    /\ config' \in [models : ModelLists, port_start : {PortStart}]
    /\ nodes' \in {[k \in 1..n |-> k] : n \in 1..MaxNodes}
    /\ pc' = "check_nodes"
    /\ model_i' = 1
    /\ UNCHANGED <<redis_started, inst_j, instance_idx, node_offset, endpoints,
                   tmp_files, fs, processes>>
    /\ UNCHANGED <<waitVars, now, regVars, callVars, monitorVars, jobVars, ssh_conn, cliVars>>

\* the test of line 258
InsufficientNodes(ns, cfg) == Len(ns) < nodes_needed(cfg)

\* (faulty variant) Redis is started before the node count is tested
CheckNodes_AfterRedis ==
    /\ pc = "check_nodes"
    /\ redis_started' = TRUE
    /\ pc' = IF InsufficientNodes(nodes, config) THEN "exit_nodes" ELSE "launch_loop"
    /\ UNCHANGED <<config, nodes, model_i, inst_j, instance_idx,
                   node_offset, endpoints, tmp_files, fs, processes>>
    /\ UNCHANGED <<waitVars, now, regVars, callVars, monitorVars, jobVars, ssh_conn, cliVars>>

\* lines 255-263: sys.exit(1) when too few nodes are allocated
CheckNodes ==
    /\ pc = "check_nodes"
    /\ pc' = IF InsufficientNodes(nodes, config) THEN "exit_nodes" ELSE "start_redis"
    /\ UNCHANGED launchLocals
    /\ UNCHANGED <<waitVars, now, regVars, callVars, monitorVars, jobVars, ssh_conn, cliVars>>

\* line 266, _start_redis: the start script succeeds ...
StartRedis ==
    /\ pc = "start_redis"
    /\ redis_started' = TRUE
    /\ pc' = "launch_loop"
    /\ UNCHANGED <<config, nodes, model_i, inst_j, instance_idx,
                   node_offset, endpoints, tmp_files, fs, processes>>
    /\ UNCHANGED <<waitVars, now, regVars, callVars, monitorVars, jobVars, ssh_conn, cliVars>>

\* ... or it fails, or prints no bind address: sys.exit(1)
StartRedisFail ==
    /\ pc = "start_redis"
    /\ pc' = "exit_redis"
    /\ UNCHANGED launchLocals
    /\ UNCHANGED <<waitVars, now, regVars, callVars, monitorVars, jobVars, ssh_conn, cliVars>>

ScriptFile(idx, port) ==
    [kind |-> "script", instance |-> idx, port |-> port, nodes |-> << >>]

HostFile(idx, port, instance_nodes) ==
    [kind |-> "hosts", instance |-> idx, port |-> port, nodes |-> instance_nodes]

\* (faulty variant) lines 335-336 dedented out of the inner loop: instance_idx and
\* node_offset advance once per model, after its last instance
LaunchOne_CountersPerModel ==
    LET model_cfg == config.models[model_i]
        port == InstancePort(config, instance_idx)
        npi == nodes_per_instance(model_cfg)
        instance_nodes == InstanceNodes(nodes, node_offset, npi)
        last == inst_j + 1 >= model_cfg.instances
    IN IF instance_nodes = << >>
       THEN /\ pc' = "raised"
            /\ UNCHANGED <<inst_j, instance_idx, node_offset, endpoints,
                           tmp_files, fs, processes>>
       ELSE /\ endpoints' = Append(endpoints, InstanceEndpoint(instance_nodes, port))
            /\ tmp_files' = tmp_files \o <<ScriptFile(instance_idx, port),
                                            HostFile(instance_idx, port, instance_nodes)>>
            /\ fs' = fs \cup {ScriptFile(instance_idx, port),
                               HostFile(instance_idx, port, instance_nodes)}
            /\ processes' = Append(processes,
                                   [instance |-> instance_idx, model |-> model_i,
                                    hostfile |-> HostFile(instance_idx, port,
                                                          instance_nodes)])
            /\ instance_idx' = IF last THEN instance_idx + 1 ELSE instance_idx
            /\ node_offset' = IF last THEN node_offset + npi ELSE node_offset
            /\ inst_j' = inst_j + 1
            /\ pc' = pc

\* lines 283-336: one pass of the body of the inner for loop
LaunchOne ==
    LET model_cfg == config.models[model_i]
        port == InstancePort(config, instance_idx)
        npi == nodes_per_instance(model_cfg)
        instance_nodes == InstanceNodes(nodes, node_offset, npi)
    IN IF instance_nodes = << >>
       THEN \* instance_nodes[0]: IndexError, not caught
            /\ pc' = "raised"
            /\ UNCHANGED <<inst_j, instance_idx, node_offset, endpoints,
                           tmp_files, fs, processes>>
       ELSE /\ endpoints' = Append(endpoints, InstanceEndpoint(instance_nodes, port))
            /\ tmp_files' = tmp_files \o <<ScriptFile(instance_idx, port),
                                            HostFile(instance_idx, port, instance_nodes)>>
            /\ fs' = fs \cup {ScriptFile(instance_idx, port),
                               HostFile(instance_idx, port, instance_nodes)}
            /\ processes' = Append(processes,
                                   [instance |-> instance_idx, model |-> model_i,
                                    hostfile |-> HostFile(instance_idx, port,
                                                          instance_nodes)])
            /\ instance_idx' = instance_idx + 1
            /\ node_offset' = node_offset + npi
            /\ inst_j' = inst_j + 1
            /\ pc' = pc

\* lines 281-336: the two nested for loops, one step per loop test
LaunchLoop ==
    /\ pc = "launch_loop"
    /\ IF model_i > Len(config.models)
       THEN /\ pc' = "register"
            /\ UNCHANGED <<model_i, inst_j, instance_idx, node_offset, endpoints,
                           tmp_files, fs, processes>>
       ELSE IF inst_j >= config.models[model_i].instances
       THEN /\ model_i' = model_i + 1
            /\ inst_j' = 0
            /\ UNCHANGED <<pc, instance_idx, node_offset, endpoints,
                           tmp_files, fs, processes>>
       ELSE /\ LaunchOne
            /\ UNCHANGED model_i
    /\ UNCHANGED <<config, nodes, redis_started>>
    /\ UNCHANGED <<waitVars, now, regVars, callVars, monitorVars, jobVars, ssh_conn, cliVars>>

\* lines 342-343, _register_instances(endpoints, ..., status = "starting")
RegisterInstances ==
    /\ pc = "register"
    /\ LET walk == ModelLookup(config, nodes, LoopOrder(config.models, 1), 1, 0, Empty)
       IN IF walk.raised
          THEN /\ pc' = "raised"
               /\ UNCHANGED regVars
          ELSE /\ pc' = "wait_init"
               /\ SetReg(RegisterAll(Reg, config, walk.lookup, endpoints,
                                     STARTING, now))
    /\ UNCHANGED launchLocals
    /\ UNCHANGED <<waitVars, now, callVars, monitorVars, jobVars, ssh_conn, cliVars>>

-----------------------------------------------------------------------------
(* launcher._wait_for_instances(endpoints), called at line 345 *)

\* what one GET of /health can end in: HTTP 200; another answer (a status that
\* is no error passes the with block, an error status is an HTTPError, which
\* is a URLError); URLError / OSError (refused, unreachable, timed out)
ProbeOutcomes == {"200", "non200", "error"}

\* lines 113-115
WaitInit ==
    /\ pc = "wait_init"
    /\ ready' = {}
    /\ deadline' = now + WaitTimeout
    /\ cycle' = 0
    /\ pc' = "while"
    /\ UNCHANGED <<ep_i, polled, slept, last_probe>>
    /\ UNCHANGED launchLocals
    /\ UNCHANGED <<now, regVars, callVars, monitorVars, jobVars, ssh_conn, cliVars>>

\* line 117: while time.monotonic() < deadline
LoopTest(t, d) == t < d

\* lines 117-119 when the test holds, lines 144-150 (sys.exit(1)) when not
WhileCheck ==
    /\ pc = "while"
    /\ IF LoopTest(now, deadline)
       THEN /\ cycle' = cycle + 1
            /\ ep_i' = 1
            /\ polled' = {}
            /\ last_probe' = << >>
            /\ pc' = "for"
       ELSE /\ pc' = "exit_timeout"
            /\ UNCHANGED <<cycle, ep_i, polled, last_probe>>
    /\ UNCHANGED <<ready, deadline, slept>>
    /\ UNCHANGED launchLocals
    /\ UNCHANGED <<now, regVars, callVars, monitorVars, jobVars, ssh_conn, cliVars>>

\* (faulty variant) the test of line 120 is dropped
AlreadyReady_Never(e, rdy) == FALSE

\* line 120: if (node, port) in ready
AlreadyReady(e, rdy) == e \in rdy

\* lines 120-121: continue
SkipReady ==
    /\ pc = "for"
    /\ ep_i <= Len(endpoints)
    /\ AlreadyReady(endpoints[ep_i], ready)
    /\ ep_i' = ep_i + 1
    /\ UNCHANGED <<ready, deadline, cycle, polled, slept, last_probe>>
    /\ UNCHANGED <<pc, launchLocals>>
    /\ UNCHANGED <<now, regVars, callVars, monitorVars, jobVars, ssh_conn, cliVars>>

\* (faulty variant) every answer counts as ready, resp.status is not looked at
AfterProbe_AnyAnswer(rdy, e, outcome) ==
    IF outcome # "error" THEN rdy \cup {e} ELSE rdy

\* lines 124-137: the ready set after a probe of e that ended in outcome
AfterProbe(rdy, e, outcome) ==
    IF outcome = "200" THEN rdy \cup {e} ELSE rdy

\* the time a probe takes: an answer comes at once, a failure at once
\* (connection refused) or when the probe's timeout runs out
ProbeTimes(outcome) == IF outcome = "error" THEN {0, ProbeTimeout} ELSE {0}

\* lines 122-137: one health probe
Probe ==
    /\ pc = "for"
    /\ ep_i <= Len(endpoints)
    /\ ~AlreadyReady(endpoints[ep_i], ready)
    /\ \E outcome \in ProbeOutcomes : \E d \in ProbeTimes(outcome) :
          /\ ready' = AfterProbe(ready, endpoints[ep_i], outcome)
          /\ last_probe' = <<ep_i, outcome>>
          /\ now' = now + d
    /\ polled' = polled \cup {endpoints[ep_i]}
    /\ ep_i' = ep_i + 1
    /\ UNCHANGED <<deadline, cycle, slept>>
    /\ UNCHANGED <<config, nodes, pc, redis_started, model_i, inst_j, instance_idx,
                   node_offset, endpoints, tmp_files, fs, processes>>
    /\ UNCHANGED <<regVars, callVars, monitorVars, jobVars, ssh_conn, cliVars>>

\* line 139: if len(ready) == len(endpoints)
AllReady(rdy, eps) == Cardinality(rdy) = Len(eps)

\* lines 139-142: return, or time.sleep(poll_interval) and back to the while
CycleEnd ==
    /\ pc = "for"
    /\ ep_i > Len(endpoints)
    /\ IF AllReady(ready, endpoints)
       THEN /\ pc' = "returned"
            /\ UNCHANGED <<slept, now>>
       ELSE /\ pc' = "while"
            /\ slept' = slept + 1
            /\ now' = now + PollInterval
    /\ UNCHANGED <<ready, deadline, cycle, ep_i, polled, last_probe>>
    /\ UNCHANGED launchLocals
    /\ UNCHANGED <<regVars, callVars, monitorVars, jobVars, ssh_conn, cliVars>>

\* launch_instances, lines 347-355: unlink the tmp files, set every instance
\* healthy
Finish ==
    /\ pc = "returned"
    /\ fs' = fs \ Range(tmp_files)
    /\ SetReg(UpdateAll(Reg, endpoints, HEALTHY, now))
    /\ pc' = "done"
    /\ UNCHANGED <<config, nodes, redis_started, model_i, inst_j, instance_idx,
                   node_offset, endpoints, tmp_files, processes>>
    /\ UNCHANGED <<waitVars, now, callVars, monitorVars, jobVars, ssh_conn, cliVars>>

\* the steps of _wait_for_instances
WaitNext ==
    \/ WaitInit
    \/ WhileCheck
    \/ SkipReady
    \/ Probe
    \/ CycleEnd

NextLaunch ==
    \/ CmdLaunch
    \/ CheckNodes
    \/ StartRedis
    \/ StartRedisFail
    \/ LaunchLoop
    \/ RegisterInstances
    \/ WaitNext
    \/ Finish

SpecLaunch == InitLaunch /\ [][NextLaunch]_vars

\* the wait is straight-line code in one thread: once entered, its next
\* statement is executed, none is postponed for ever
SpecLaunchFair == SpecLaunch /\ WF_vars(WaitNext)

-----------------------------------------------------------------------------
(* Properties of the placement (launch_instances) *)

\* the loop over models and instances has run to its end
Planned == pc \in {"register", "wait_init", "while", "for", "returned", "done",
                   "exit_timeout"}

\* instances requested by the configuration, in launch order
Order == LoopOrder(config.models, 1)

NpiOf(k) == nodes_per_instance(config.models[Order[k]])

\* nodes taken by the instances before the k-th one
RECURSIVE OffsetOf(_)
OffsetOf(k) == IF k <= 1 THEN 0 ELSE OffsetOf(k - 1) + NpiOf(k - 1)

\* the node list written to the hostfile of the k-th launched instance
HostNodes(k) == tmp_files[2 * k].nodes

\* C1: planning fails with the insufficient-nodes error iff the nodes needed
\* exceed the nodes allocated; every other configuration, tensor_parallel_size
\* = 0 and instances = 0 included, is planned to the end with one
\* (head node, port) descriptor per requested instance.
C1_PlanFailsIffInsufficient ==
    /\ pc = "exit_nodes" => nodes_needed(config) > Len(nodes)
    /\ nodes_needed(config) <= Len(nodes) =>
          /\ pc \notin {"exit_nodes", "raised"}
          /\ Planned => Len(endpoints) = Len(Order)

\* C2: when launch_instances exits for lack of nodes, nothing was started:
\* no Redis, no script or hostfile, no process, no service record.
C2_NothingStartedOnFailure ==
    pc = "exit_nodes" =>
        /\ ~redis_started
        /\ tmp_files = << >>
        /\ fs = {}
        /\ processes = << >>
        /\ endpoints = << >>
        /\ store = Empty
        /\ active = {}
        /\ \A t \in ServiceTypes : typeIdx[t] = {}

C2_Witness == pc = "exit_nodes" /\ Len(nodes) >= 2

\* C3: in a completed plan the instances' node lists are slices of the node
\* sequence, of length nodes_per_instance, back to back from offset 0 in
\* launch order, disjoint, and none reaches past the end of the sequence.
C3_ContiguousSlices ==
    Planned =>
        /\ Len(processes) = Len(Order)
        /\ Len(tmp_files) = 2 * Len(Order)
        /\ \A k \in 1..Len(Order) :
              /\ OffsetOf(k) + NpiOf(k) <= Len(nodes)
              /\ HostNodes(k) = [x \in 1..NpiOf(k) |-> nodes[OffsetOf(k) + x]]
        /\ \A k1, k2 \in 1..Len(Order) :
              k1 # k2 => Range(HostNodes(k1)) \cap Range(HostNodes(k2)) = {}

C3_Witness ==
    /\ pc = "done"
    /\ Len(processes) = 3
    /\ \E k \in 1..3 : Len(HostNodes(k)) = 2

\* C4: no two instances of a plan have the same head node and the same port.
C4_PortUniqueness ==
    \A a, b \in DOMAIN endpoints : a # b => endpoints[a] # endpoints[b]

C4_Witness == pc = "done" /\ Len(endpoints) = MaxNodes

\* nodes [0],[1],[2,3] of the Python list are the nodes 1, 2, 3, 4 here
Scenario1 ==
    /\ Len(config.models) = 2
    /\ config.models[1].instances = 2
    /\ nodes_per_instance(config.models[1]) = 1
    /\ config.models[2].instances = 1
    /\ nodes_per_instance(config.models[2]) = 2
    /\ Len(nodes) = 4
    /\ config.port_start = 8000

-----------------------------------------------------------------------------
(* Properties of the readiness barrier (_wait_for_instances) *)

WaitOver == pc \in {"returned", "done", "exit_timeout"}

\* the for loop over the endpoints has come to its end
AtCycleEnd == pc = "for" /\ ep_i > Len(endpoints)

\* C6: a timeout with some endpoints ready and some not returns the ready
\* subset to the caller; the wait is fatal only when no endpoint became ready.
C6_PartialReadyReturns == pc = "exit_timeout" => ready = {}

\* C7: within one call the ready set only grows, and an endpoint that is in
\* the ready set is not probed again.
C7_ReadyMonotone ==
    [][/\ ready \subseteq ready'
       /\ \A e \in polled' \ polled : e \notin ready]_vars

\* a later cycle has passed over a ready endpoint without probing it, while
\* another endpoint is still pending
C7_Witness ==
    /\ pc = "for"
    /\ cycle >= 2
    /\ ready # Range(endpoints)
    /\ \E k \in 1..Len(endpoints) :
          k < ep_i /\ endpoints[k] \in ready /\ endpoints[k] \notin polled

-----------------------------------------------------------------------------
(* ServiceRegistry, its operations run one at a time *)

RegIds == {"s1", "s2"}

\* the ServiceInfo objects given to register_service; last_seen is left to
\* __post_init__, which sets it to time.time()
RegisterStatuses == {STARTING, HEALTHY}
RegisterMetadata == {Empty, [model |-> "m1", tensor_parallel_size |-> 1]}
HostOf(id) == IF id = "s1" THEN "n1" ELSE "n2"
Infos(t) ==
    {ServiceInfo(id, HostOf(id), PortStart, type, status, t, md) :
        id \in RegIds, type \in ServiceTypes, status \in RegisterStatuses,
        md \in RegisterMetadata}

\* the arguments given to update_health
UpdateStatuses == {HEALTHY, UNHEALTHY}
UpdateMetadata == {None, [model |-> "m2"]}

\* timeout_seconds given to mark_unhealthy_services
MarkTimeouts == {0, 1}

\* the arguments given to the queries
QueryTypes == ServiceTypes \cup {NoneStr}
QueryStatuses == {NoneStr, HEALTHY}
QueryTimeouts == {1}

\* the registrations and updates made where the queries are studied: the
\* launcher's and the monitor's, which give no metadata of their own
QueryInfos(t) == {info \in Infos(t) : info.metadata = Empty}

\* cleanup_unhealthy_services: the loop over the listed services
RECURSIVE CleanupLoop(_, _, _)
CleanupLoop(R, services, removed_count) ==
    IF services = {} THEN [reg |-> R, ret |-> removed_count]
    ELSE LET service == CHOOSE x \in services : TRUE
             r == deregister_service(R, service.service_id)
         IN CleanupLoop(r.reg, services \ {service},
                        IF r.ret THEN removed_count + 1 ELSE removed_count)

cleanup_unhealthy_services(R) ==
    CleanupLoop(R, list_services(R, NoneStr, UNHEALTHY), 0)

\* mark_unhealthy_services: the loop over the listed services
RECURSIVE MarkLoop(_, _, _, _, _)
MarkLoop(R, services, timeout_seconds, t, marked_count) ==
    IF services = {} THEN [reg |-> R, ret |-> marked_count]
    ELSE LET service == CHOOSE x \in services : TRUE
             rest == services \ {service}
         IN IF service.status # HEALTHY
            THEN MarkLoop(R, rest, timeout_seconds, t, marked_count)
            ELSE IF t - service.last_seen > timeout_seconds
            THEN LET r == update_health(R, service.service_id, UNHEALTHY, None, t)
                 IN MarkLoop(r.reg, rest, timeout_seconds, t,
                             IF r.ret THEN marked_count + 1 ELSE marked_count)
            ELSE MarkLoop(R, rest, timeout_seconds, t, marked_count)

mark_unhealthy_services(R, timeout_seconds, t) ==
    MarkLoop(R, list_services(R, NoneStr, NoneStr), timeout_seconds, t, 0)

InitRegistry ==
    /\ NoLaunch
    /\ NoWait
    /\ now = 0
    /\ EmptyRegistry
    /\ NoCalls
    /\ NoMonitor
    /\ NoJob
    /\ NoCli

Completed(name, id, r) ==
    /\ SetReg(r.reg)
    /\ op' = [name |-> name, id |-> id, ret |-> r.ret]
    /\ UNCHANGED <<launchVars, waitVars, now, procs, start, monitorVars, jobVars, ssh_conn, cliVars>>

\* a call that issues no writing command: the registry is as it was
Answer(value) == [reg |-> Reg, ret |-> value]

RegisterServiceCall(info) ==
    Completed("register_service", info.service_id,
              [reg |-> register_service(Reg, info), ret |-> TRUE])

RegisterService == \E info \in Infos(now) : RegisterServiceCall(info)

DeregisterServiceCall(id) ==
    Completed("deregister_service", id, deregister_service(Reg, id))

DeregisterService == \E id \in RegIds : DeregisterServiceCall(id)

UpdateHealthCall(id, status, metadata) ==
    Completed("update_health", id, update_health(Reg, id, status, metadata, now))

UpdateHealth ==
    \E id \in RegIds, status \in UpdateStatuses, metadata \in UpdateMetadata :
        UpdateHealthCall(id, status, metadata)

HeartbeatCall(id) == Completed("heartbeat", id, heartbeat(Reg, id, now))

Heartbeat == \E id \in RegIds : HeartbeatCall(id)

GetServiceCall(id) == Completed("get_service", id, Answer(get_service(Reg, id)))

GetService == \E id \in RegIds : GetServiceCall(id)

CheckHealthCall(id, timeout_seconds) ==
    Completed("check_health", id,
              Answer(check_health(Reg, id, timeout_seconds, now)))

CheckHealth ==
    \E id \in RegIds, timeout_seconds \in QueryTimeouts :
        CheckHealthCall(id, timeout_seconds)

ListServicesCall(service_type, status_filter) ==
    Completed("list_services", service_type,
              Answer(list_services(Reg, service_type, status_filter)))

ListServices ==
    \E service_type \in QueryTypes, status_filter \in QueryStatuses :
        ListServicesCall(service_type, status_filter)

\* (faulty variant) the query marks what it leaves out
GetHealthyServicesCall_Marking(service_type, timeout_seconds) ==
    Completed("get_healthy_services", service_type,
              [reg |-> mark_unhealthy_services(Reg, timeout_seconds - 1, now).reg,
               ret |-> get_healthy_services(Reg, service_type,
                                            timeout_seconds, now)])

GetHealthyServicesCall(service_type, timeout_seconds) ==
    Completed("get_healthy_services", service_type,
              Answer(get_healthy_services(Reg, service_type,
                                          timeout_seconds, now)))

GetHealthyServices ==
    \E service_type \in QueryTypes, timeout_seconds \in QueryTimeouts :
        GetHealthyServicesCall(service_type, timeout_seconds)

GetServiceCountCall(service_type) ==
    Completed("get_service_count", service_type,
              Answer(get_service_count(Reg, service_type)))

GetServiceCount == \E service_type \in QueryTypes : GetServiceCountCall(service_type)

CleanupUnhealthyServices ==
    Completed("cleanup_unhealthy_services", NoneStr,
              cleanup_unhealthy_services(Reg))

MarkUnhealthyServices ==
    \E timeout_seconds \in MarkTimeouts :
        Completed("mark_unhealthy_services", NoneStr,
                  mark_unhealthy_services(Reg, timeout_seconds, now))

\* time passes between two operations
Tick ==
    /\ now < MaxTime
    /\ now' = now + 1
    /\ UNCHANGED <<launchVars, waitVars, regVars, callVars, monitorVars, jobVars, ssh_conn, cliVars>>

NextRegistry ==
    \/ RegisterService
    \/ DeregisterService
    \/ UpdateHealth
    \/ Heartbeat
    \/ CleanupUnhealthyServices
    \/ MarkUnhealthyServices
    \/ Tick

SpecRegistry == InitRegistry /\ [][NextRegistry]_vars

(* ServiceRegistry, writers and readers one at a time *)

RegisterForQueries == \E info \in QueryInfos(now) : RegisterServiceCall(info)

UpdateForQueries ==
    \E id \in RegIds, status \in UpdateStatuses :
        UpdateHealthCall(id, status, None)

NextQueries ==
    \/ RegisterForQueries
    \/ DeregisterService
    \/ UpdateForQueries
    \/ Heartbeat
    \/ GetService
    \/ CheckHealth
    \/ ListServices
    \/ GetHealthyServices
    \/ GetServiceCount
    \/ Tick

SpecQueries == InitRegistry /\ [][NextQueries]_vars

\* the step completes a call of the method named
Did(name) == op'.name = name

\* C11: an operation on a service id that has no record reports absence and
\* changes nothing: get_service returns None, check_health returns exists =
\* False and is_responsive = False, update_health, heartbeat and
\* deregister_service return False, and after each of them the primary map
\* and all indexes are as before.
C11_UnknownIdChangesNothing ==
    [][\A id \in RegIds :
        ~Exists(Reg, id) =>
            /\ Did("get_service") /\ GetServiceCall(id) =>
                    op'.ret = None /\ UNCHANGED regVars
            /\ \A timeout_seconds \in QueryTimeouts :
                 Did("check_health") /\ CheckHealthCall(id, timeout_seconds) =>
                    /\ op'.ret.exists = FALSE
                    /\ op'.ret.is_responsive = FALSE
                    /\ UNCHANGED regVars
            /\ \A status \in UpdateStatuses, metadata \in UpdateMetadata :
                 Did("update_health") /\ UpdateHealthCall(id, status, metadata) =>
                    op'.ret = FALSE /\ UNCHANGED regVars
            /\ Did("heartbeat") /\ HeartbeatCall(id) =>
                    op'.ret = FALSE /\ UNCHANGED regVars
            /\ Did("deregister_service") /\ DeregisterServiceCall(id) =>
                    op'.ret = FALSE /\ UNCHANGED regVars
      ]_vars

\* a heartbeat for an id without record was refused while another id is
\* registered
C11_Witness ==
    /\ op.name = "heartbeat"
    /\ op.ret = FALSE
    /\ ~Exists(Reg, op.id)
    /\ store # Empty

\* the ids held by the active index and the type indexes
IndexedIds(R) == R.active \cup UNION {R.typeIdx[t] : t \in ServiceTypes}

\* C9: after any sequence of completed registry operations, every service id
\* in the active index or in a type index has a record in the primary map,
\* also after an id was registered again with another service_type and then
\* deregistered.
C9_IndexedIdsHaveRecords == \A id \in IndexedIds(Reg) : Exists(Reg, id)

-----------------------------------------------------------------------------
(* ServiceRegistry called by concurrent callers.  The class takes no lock and *)
(* uses no MULTI/EXEC transaction or pipeline: every redis_client call is one *)
(* command, atomic by itself, and the commands of different callers           *)
(* interleave.  Each caller makes one call on service "s1".                   *)

Callers == {"c1", "c2", "c3"}

TheId == "s1"

\* the calls a caller can make
RegisterCalls ==
    {[name |-> "register_service",
      info |-> ServiceInfo(TheId, HostOf(TheId), PortStart, "vllm", STARTING, 1,
                           Empty)]}
DeregisterCalls == {[name |-> "deregister_service", id |-> TheId]}
UpdateCalls ==
    {[name |-> "update_health", id |-> TheId, status |-> HEALTHY,
      metadata |-> None],
     [name |-> "update_health", id |-> TheId, status |-> UNHEALTHY,
      metadata |-> [model |-> "m2"]],
     [name |-> "update_health", id |-> TheId, status |-> HEALTHY,
      metadata |-> [gpu |-> "g1"]]}
Calls == RegisterCalls \cup DeregisterCalls \cup UpdateCalls

\* the registries the callers can start from: empty, or TheId registered
StartRegistries ==
    LET R0 == [store |-> Empty, active |-> {},
               typeIdx |-> [t \in ServiceTypes |-> {}]]
    IN {R0,
        register_service(R0, ServiceInfo(TheId, HostOf(TheId), PortStart, "vllm",
                                         STARTING, 0,
                                         [model |-> "m1", tensor_parallel_size |-> 1]))}

FirstPc(call) ==
    CASE call.name = "register_service" -> "hset"
      [] call.name = "deregister_service" -> "get_service"
      [] call.name = "update_health" -> "exists"

InitConcurrent ==
    /\ NoLaunch
    /\ NoWait
    /\ now = 1
    /\ NoMonitor
    /\ NoJob
    /\ NoCli
    /\ op = NoOp
    /\ start \in StartRegistries
    /\ store = start.store
    /\ active = start.active
    /\ typeIdx = start.typeIdx
    /\ \E calls \in [Callers -> Calls] :
          procs = [c \in Callers |->
                      [call |-> calls[c], pc |-> FirstPc(calls[c]),
                       local |-> None, ret |-> None]]

\* caller c moves to position p, with local value l
Goto(c, p, l) == procs' = [procs EXCEPT ![c].pc = p, ![c].local = l]

Return(c, r) == procs' = [procs EXCEPT ![c].pc = "done", ![c].ret = [value |-> r]]

Frame == UNCHANGED <<launchVars, waitVars, now, op, start, monitorVars, jobVars, ssh_conn, cliVars>>

\* register_service, line 116
RegHSet(c) ==
    /\ procs[c].pc = "hset"
    /\ SetReg(register_hset(Reg, procs[c].call.info))
    /\ Goto(c, "sadd_active", None)
    /\ Frame

\* register_service, line 119
RegSAddActive(c) ==
    /\ procs[c].pc = "sadd_active"
    /\ SetReg(register_sadd_active(Reg, procs[c].call.info))
    /\ Goto(c, "sadd_type", None)
    /\ Frame

\* register_service, lines 122-124
RegSAddType(c) ==
    /\ procs[c].pc = "sadd_type"
    /\ SetReg(register_sadd_type(Reg, procs[c].call.info))
    /\ Return(c, TRUE)
    /\ Frame

\* deregister_service, lines 141-143
DeregGet(c) ==
    /\ procs[c].pc = "get_service"
    /\ LET service_info == get_service(Reg, procs[c].call.id)
       IN IF service_info = None
          THEN Return(c, FALSE)
          ELSE Goto(c, "srem_active", service_info)
    /\ UNCHANGED regVars
    /\ Frame

\* deregister_service, line 150
DeregSRemActive(c) ==
    /\ procs[c].pc = "srem_active"
    /\ SetReg(deregister_srem_active(Reg, procs[c].call.id))
    /\ Goto(c, "srem_type", procs[c].local)
    /\ Frame

\* deregister_service, line 151
DeregSRemType(c) ==
    /\ procs[c].pc = "srem_type"
    /\ SetReg(deregister_srem_type(Reg, procs[c].call.id, procs[c].local))
    /\ Goto(c, "delete", None)
    /\ Frame

\* deregister_service, lines 154-156
DeregDelete(c) ==
    /\ procs[c].pc = "delete"
    /\ SetReg(deregister_delete(Reg, procs[c].call.id))
    /\ Return(c, TRUE)
    /\ Frame

\* update_health, lines 178-189: EXISTS, then the test of metadata
UpdExists(c) ==
    /\ procs[c].pc = "exists"
    /\ IF ~Exists(Reg, procs[c].call.id)
       THEN Return(c, FALSE)
       ELSE IF procs[c].call.metadata # None /\ procs[c].call.metadata # Empty
       THEN Goto(c, "hget", None)
       ELSE Goto(c, "hset_updates", None)
    /\ UNCHANGED regVars
    /\ Frame

\* update_health, line 190: HGET of the stored metadata
UpdHGet(c) ==
    /\ procs[c].pc = "hget"
    /\ Goto(c, "hset_updates", HGet(Reg, procs[c].call.id, "metadata"))
    /\ UNCHANGED regVars
    /\ Frame

\* update_health, lines 191-199: HSET of the updates
UpdHSet(c) ==
    /\ procs[c].pc = "hset_updates"
    /\ SetReg(HSet(Reg, procs[c].call.id,
                   health_updates(procs[c].call.status, now,
                                  procs[c].call.metadata, procs[c].local)))
    /\ Return(c, TRUE)
    /\ Frame

NextConcurrent ==
    \E c \in Callers :
        \/ RegHSet(c)
        \/ RegSAddActive(c)
        \/ RegSAddType(c)
        \/ DeregGet(c)
        \/ DeregSRemActive(c)
        \/ DeregSRemType(c)
        \/ DeregDelete(c)
        \/ UpdExists(c)
        \/ UpdHGet(c)
        \/ UpdHSet(c)

SpecConcurrent == InitConcurrent /\ [][NextConcurrent]_vars

\* a call run as one atomic step
ApplyCall(R, call) ==
    CASE call.name = "register_service" -> register_service(R, call.info)
      [] call.name = "deregister_service" -> deregister_service(R, call.id).reg
      [] call.name = "update_health" ->
            update_health(R, call.id, call.status, call.metadata, now).reg

RECURSIVE ApplyInOrder(_, _)
ApplyInOrder(R, order) ==
    IF order = << >> THEN R
    ELSE ApplyInOrder(ApplyCall(R, procs[Head(order)].call), Tail(order))

\* the orders in which the callers can be run one after the other
SerialOrders ==
    {o \in [1..Cardinality(Callers) -> Callers] :
        \A a, b \in DOMAIN o : a # b => o[a] # o[b]}

SerialOutcomes == {ApplyInOrder(start, o) : o \in SerialOrders}

AllReturned == \A c \in Callers : procs[c].pc = "done"

\* C10: with register_service, deregister_service and update_health of one
\* service id run by concurrent callers, no state has the id in an index
\* without a record in the primary map, and every final state is the result
\* of running the calls in some serial order.
C10_OperationsAtomic ==
    /\ \A id \in IndexedIds(Reg) : Exists(Reg, id)
    /\ AllReturned => Reg \in SerialOutcomes

\* the fields of a complete record
CompleteFields == {"host", "port", "service_type", "status", "last_seen"}

\* C35: when update_health for a service id runs concurrently with
\* deregister_service (and register_service) for the same id, then after all
\* calls have returned the primary map either holds a complete record for the
\* id (host, port, service_type, status and last_seen) or holds no entry for
\* it; an update does not re-create a partial record of a removed id.
C35_NoPartialRecord ==
    AllReturned =>
        \A id \in DOMAIN store : CompleteFields \subseteq DOMAIN store[id]

-----------------------------------------------------------------------------
(* Contracts of the registry operations *)

\* the metadata given to update_health, None read as no keys
GivenKeys(metadata) == IF metadata = None THEN {} ELSE DOMAIN metadata

\* every caller runs update_health, on a service registered at the start
OnlyUpdates ==
    /\ Exists(start, TheId)
    /\ \A c \in Callers : procs[c].call.name = "update_health"

\* C36: when two callers run update_health on the same registered service at
\* the same time, each giving a metadata key the other does not give, then
\* after the calls have returned the stored metadata holds both keys.
C36_MetadataMergesKept ==
    AllReturned /\ OnlyUpdates =>
        \A c, d \in Callers :
            LET given_c == GivenKeys(procs[c].call.metadata)
                given_d == GivenKeys(procs[d].call.metadata)
            IN  given_c \ given_d # {} /\ given_d \ given_c # {} =>
                    given_c \cup given_d
                        \subseteq DOMAIN get_service(Reg, TheId).metadata

\* C12: update_health on a registered service id returns True, sets the
\* record's status to the given status and last_seen to the current time, and
\* merges the given metadata into the stored metadata (keys given are
\* overwritten, keys not given are kept); host, port and service_type of the
\* record, all indexes and every other record are unchanged.
C12_UpdateHealthEffect ==
    [][\A id \in RegIds, status \in UpdateStatuses, metadata \in UpdateMetadata :
        Exists(Reg, id) /\ Did("update_health") /\ op'.id = id
                        /\ UpdateHealthCall(id, status, metadata) =>
            LET before == get_service(Reg, id)
                after == get_service(Reg', id)
            IN /\ op'.ret = TRUE
               /\ after # None
               /\ after.status = status
               /\ after.last_seen = now
               /\ DOMAIN after.metadata =
                      DOMAIN before.metadata \cup GivenKeys(metadata)
               /\ \A k \in GivenKeys(metadata) :
                      after.metadata[k] = metadata[k]
               /\ \A k \in DOMAIN before.metadata \ GivenKeys(metadata) :
                      after.metadata[k] = before.metadata[k]
               /\ after.service_id = before.service_id
               /\ after.host = before.host
               /\ after.port = before.port
               /\ after.service_type = before.service_type
               /\ active' = active
               /\ typeIdx' = typeIdx
               /\ DOMAIN store' = DOMAIN store
               /\ \A other \in DOMAIN store \ {id} : store'[other] = store[other]
      ]_vars

\* an update has overwritten the key "model" of a record and kept its key
\* "tensor_parallel_size", while a second record exists
C12_Witness ==
    /\ op.name = "update_health"
    /\ op.ret = TRUE
    /\ DOMAIN store = RegIds
    /\ get_service(Reg, op.id).status = UNHEALTHY
    /\ DOMAIN get_service(Reg, op.id).metadata = {"model", "tensor_parallel_size"}
    /\ get_service(Reg, op.id).metadata["model"] = "m2"

\* the records with service id `id` that list_services() returns
ListedFor(R, id) ==
    {service \in list_services(R, NoneStr, NoneStr) : service.service_id = id}

\* C13: in every state the registry reaches, registering a service id leaves
\* exactly one record for that id, with all the fields of this registration,
\* also when the id was registered before; the service count grows by one for
\* a new id and not at all for a registered one; registering the same record
\* once more leaves the registry as the first registration left it.
C13_RegisterIdempotent ==
    \A info \in Infos(now) :
        LET once == register_service(Reg, info)
            twice == register_service(once, info)
        IN /\ get_service(once, info.service_id) = info
           /\ ListedFor(once, info.service_id) = {info}
           /\ get_service_count(once, NoneStr) =
                 get_service_count(Reg, NoneStr)
                 + (IF Exists(Reg, info.service_id) THEN 0 ELSE 1)
           /\ twice = once

\* an id was registered as "vllm" and then as "router" with other fields,
\* and one service is counted
C13_Witness ==
    /\ op.name = "register_service"
    /\ op.id \in typeIdx["vllm"]
    /\ get_service(Reg, op.id).service_type = "router"
    /\ get_service(Reg, op.id).status = STARTING
    /\ get_service(Reg, op.id).last_seen = MaxTime
    /\ get_service_count(Reg, NoneStr) = 1

\* C34: in every state reached by completed registry operations,
\* get_service_count(type) equals the number of records that
\* list_services(type) returns, for each type and for no type, and every
\* record returned by list_services(type = T) has service_type T.
C34_CountMatchesList ==
    \A service_type \in QueryTypes :
        /\ get_service_count(Reg, service_type) =
              Cardinality(list_services(Reg, service_type, NoneStr))
        /\ service_type # NoneStr =>
              \A service \in list_services(Reg, service_type, NoneStr) :
                  service.service_type = service_type

\* the records of the primary map
Registered(R) == {get_service(R, id) : id \in DOMAIN R.store}

\* C14: get_healthy_services(type, ttl) returns exactly the registered records
\* (of the given type, when one is given) whose stored status is healthy and
\* whose age now - last_seen is strictly less than ttl.
C14_HealthyQueryExact ==
    \A service_type \in QueryTypes, timeout_seconds \in QueryTimeouts :
        get_healthy_services(Reg, service_type, timeout_seconds, now) =
            {service \in Registered(Reg) :
                /\ service_type = NoneStr \/ service.service_type = service_type
                /\ service.status = HEALTHY
                /\ now - service.last_seen < timeout_seconds}

\* the read operations of the registry
ReadOperations == {"get_service", "list_services", "get_healthy_services",
                   "get_service_count", "check_health"}

\* C15: a step that completes get_service, list_services,
\* get_healthy_services, get_service_count or check_health leaves the primary
\* map and the indexes unchanged; a record that has aged past the TTL keeps
\* its stored status and last_seen.
C15_ReadsChangeNothing ==
    [][op'.name \in ReadOperations => UNCHANGED regVars]_vars

\* get_healthy_services, called without type filter, has left out a record
\* that is stored as healthy and is older than the TTL, and the record is
\* still stored as healthy
C15_Witness ==
    /\ op.name = "get_healthy_services"
    /\ op.id = NoneStr
    /\ op.ret = {}
    /\ \E service \in Registered(Reg), timeout_seconds \in QueryTimeouts :
          /\ service.status = HEALTHY
          /\ now - service.last_seen >= timeout_seconds

-----------------------------------------------------------------------------
(* heartbeat.py: run_heartbeat_all and the __main__ block that starts it.   *)
(* The registry calls made are register_service and update_health.          *)

MaxCycles == 3        \* cycles of the while loop that are followed

\* the endpoints given on the command line: at least one, distinct ids
MonitoredLists ==
    {eps \in UNION {[1..n -> RegIds] : n \in 1..Cardinality(RegIds)} :
        \A a, b \in DOMAIN eps : a # b => eps[a] # eps[b]}

\* (faulty variant) the record is created as healthy
MonitoredInfo_Healthy(svc_id, t) ==
    ServiceInfo(svc_id, HostOf(svc_id), PortStart, "vllm", HEALTHY, t, Empty)

\* __main__: the record created for an endpoint, STARTING and of type "vllm"
MonitoredInfo(svc_id, t) ==
    ServiceInfo(svc_id, HostOf(svc_id), PortStart, "vllm", STARTING, t, Empty)

\* __main__: every endpoint is registered
RECURSIVE RegisterMonitored(_, _, _)
RegisterMonitored(R, eps, t) ==
    IF eps = << >> THEN R
    ELSE RegisterMonitored(register_service(R, MonitoredInfo(Head(eps), t)),
                           Tail(eps), t)

InitHeartbeat ==
    /\ NoLaunch
    /\ NoWait
    /\ NoCalls
    /\ NoJob
    /\ NoCli
    /\ now = 0
    /\ hb_endpoints \in MonitoredLists
    /\ LET R == RegisterMonitored(
                    [store |-> Empty, active |-> {},
                     typeIdx |-> [t \in ServiceTypes |-> {}]], hb_endpoints, 0)
       IN /\ store = R.store
          /\ active = R.active
          /\ typeIdx = R.typeIdx
    /\ last_statuses = Empty
    /\ hb_pc = "for"
    /\ hb_i = 1
    /\ hb_status = NoneStr
    /\ hb_cycle = 1
    /\ stderr = << >>
    /\ hb_events = << >>
    /\ classified = [id \in Range(hb_endpoints) |-> << >>]
    /\ probed = [id \in Range(hb_endpoints) |-> << >>]

\* (faulty variant) every answer counts as healthy, only an exception does not
Classify_AnyAnswer(outcome) == IF outcome = "error" THEN UNHEALTHY ELSE HEALTHY

\* HEALTHY if resp.status == 200 else UNHEALTHY; URLError and OSError: UNHEALTHY
Classify(outcome) == IF outcome = "200" THEN HEALTHY ELSE UNHEALTHY

\* (faulty variant) the last status is not looked up per service
LastStatus_Forgotten(ls, service_id) == NoneStr

\* last_statuses.get(service_id)
LastStatus(ls, service_id) ==
    IF service_id \in DOMAIN ls THEN ls[service_id] ELSE NoneStr

\* the line printed for a transition
LogLine(service_id, last_status, new_status) ==
    <<service_id, IF last_status # NoneStr THEN last_status ELSE "init",
      new_status>>

\* the probe of endpoints[hb_i] and its classification
HbProbe ==
    /\ hb_pc = "for"
    /\ hb_i <= Len(hb_endpoints)
    /\ \E outcome \in ProbeOutcomes :
          /\ hb_status' = Classify(outcome)
          /\ classified' = [classified EXCEPT ![hb_endpoints[hb_i]] =
                                Append(@, Classify(outcome))]
          /\ probed' = [probed EXCEPT ![hb_endpoints[hb_i]] =
                            Append(@, outcome)]
    /\ hb_events' = Append(hb_events, <<"probe", hb_endpoints[hb_i]>>)
    /\ hb_pc' = "log"
    /\ UNCHANGED <<hb_endpoints, last_statuses, hb_i, hb_cycle, stderr>>
    /\ UNCHANGED <<launchVars, waitVars, now, regVars, callVars, jobVars, ssh_conn, cliVars>>

\* the log line, if any
HbLog(service_id) ==
    LET last_status == LastStatus(last_statuses, service_id) IN
    IF hb_status # last_status
    THEN /\ stderr' = Append(stderr, LogLine(service_id, last_status, hb_status))
         /\ last_statuses' = Merge(last_statuses, service_id :> hb_status)
    ELSE UNCHANGED <<stderr, last_statuses>>

\* the for loop moves on; after the last endpoint comes time.sleep
HbNextEndpoint ==
    /\ hb_i' = hb_i + 1
    /\ hb_pc' = IF hb_i = Len(hb_endpoints) THEN "sleep" ELSE "for"
    /\ UNCHANGED <<hb_endpoints, hb_status, hb_cycle, classified, probed>>
    /\ UNCHANGED <<launchVars, waitVars, now, callVars, jobVars, ssh_conn, cliVars>>

\* (faulty variant) update_health is called only when the status has changed
HbLogAndUpdate_OnChange ==
    /\ hb_pc = "log"
    /\ LET service_id == hb_endpoints[hb_i] IN
          /\ HbLog(service_id)
          /\ IF hb_status # LastStatus(last_statuses, service_id)
             THEN /\ SetReg(update_health(Reg, service_id, hb_status, None,
                                          now).reg)
                  /\ hb_events' = Append(hb_events,
                                         <<"update_health", service_id, hb_status>>)
             ELSE UNCHANGED <<regVars, hb_events>>
    /\ HbNextEndpoint

\* the transition is logged, then registry.update_health(service_id, status)
HbLogAndUpdate ==
    /\ hb_pc = "log"
    /\ LET service_id == hb_endpoints[hb_i] IN
          /\ HbLog(service_id)
          /\ SetReg(update_health(Reg, service_id, hb_status, None, now).reg)
          /\ hb_events' = Append(hb_events,
                                 <<"update_health", service_id, hb_status>>)
    /\ HbNextEndpoint

\* time.sleep(interval), one tick, and the next turn of while True
HbSleep ==
    /\ hb_pc = "sleep"
    /\ hb_cycle < MaxCycles
    /\ now' = now + 1
    /\ hb_cycle' = hb_cycle + 1
    /\ hb_i' = 1
    /\ hb_events' = << >>
    /\ hb_pc' = "for"
    /\ UNCHANGED <<hb_endpoints, last_statuses, hb_status, stderr, classified,
                   probed>>
    /\ UNCHANGED <<launchVars, waitVars, regVars, callVars, jobVars, ssh_conn, cliVars>>

NextHeartbeat ==
    \/ HbProbe
    \/ HbLogAndUpdate
    \/ HbSleep

SpecHeartbeat == InitHeartbeat /\ [][NextHeartbeat]_vars

\* the endpoints of the current cycle that are done with
HbDone == hb_i - 1

LinesOf(id) == SelectSeq(stderr, LAMBDA line : line[1] = id)
Reported(id) ==
    IF hb_pc = "log" /\ hb_endpoints[hb_i] = id
    THEN SubSeq(classified[id], 1, Len(classified[id]) - 1)
    ELSE classified[id]

\* the changes in a sequence of classifications, the first one from "init"
RECURSIVE Transitions(_, _, _)
Transitions(h, k, prev) ==
    IF k > Len(h) THEN << >>
    ELSE (IF h[k] # prev THEN << <<prev, h[k]>> >> ELSE << >>)
         \o Transitions(h, k + 1, h[k])

\* C17: run_heartbeat_all writes a log line for a service in a cycle if and
\* only if the status classified in that cycle differs from the status
\* classified for the service in its previous cycle, the first probe logging
\* from 'init'; two consecutive lines of one service never carry the same new
\* status, and a service whose probe result never changes is logged once.
C17_LogOnlyTransitions ==
    \A id \in Range(hb_endpoints) :
        LET lines == LinesOf(id) IN
        /\ [k \in 1..Len(lines) |-> <<lines[k][2], lines[k][3]>>] =
              Transitions(Reported(id), 1, "init")
        /\ \A k \in 1..(Len(lines) - 1) : lines[k][3] # lines[k + 1][3]
        /\ (/\ Reported(id) # << >>
            /\ \A k \in DOMAIN Reported(id) : Reported(id)[k] = Reported(id)[1])
           => Len(lines) = 1

\* after three cycles one service was logged once (its result never changed)
\* and the other three times
C17_Witness ==
    /\ hb_pc = "sleep"
    /\ hb_cycle = 3
    /\ \E a, b \in Range(hb_endpoints) :
          /\ Len(LinesOf(a)) = 1
          /\ Len(LinesOf(b)) = 3

\* the services whose update_health call of some cycle has been made
Updated ==
    {id \in Range(hb_endpoints) :
        Len(probed[id]) > (IF hb_pc = "log" /\ hb_endpoints[hb_i] = id
                           THEN 1 ELSE 0)}

-----------------------------------------------------------------------------
(* The start of the two processes that own a registry: launch_instances     *)
(* (Redis registry) and the __main__ block of heartbeat.py (in-process      *)
(* registry served over HTTP), the latter statement by statement.           *)

InitMonitorMain ==
    /\ NoLaunch
    /\ NoWait
    /\ NoCalls
    /\ NoJob
    /\ NoCli
    /\ now = 0
    /\ hb_endpoints \in MonitoredLists
    /\ EmptyRegistry
    /\ last_statuses = Empty
    /\ hb_pc = "register"
    /\ hb_i = 1
    /\ hb_status = NoneStr
    /\ hb_cycle = 1
    /\ stderr = << >>
    /\ hb_events = << >>
    /\ classified = [id \in Range(hb_endpoints) |-> << >>]
    /\ probed = [id \in Range(hb_endpoints) |-> << >>]

\* lines 67-75: one turn of the registration loop
HbMainRegister ==
    /\ hb_pc = "register"
    /\ SetReg(register_service(Reg, MonitoredInfo(hb_endpoints[hb_i], now)))
    /\ hb_i' = IF hb_i = Len(hb_endpoints) THEN 1 ELSE hb_i + 1
    /\ hb_pc' = IF hb_i = Len(hb_endpoints) THEN "serve" ELSE "register"
    /\ UNCHANGED <<hb_endpoints, last_statuses, hb_status, hb_cycle, stderr,
                   hb_events, classified, probed>>
    /\ UNCHANGED <<launchVars, waitVars, now, callVars, jobVars, ssh_conn, cliVars>>

\* line 78: start_registry_server; line 82 enters run_heartbeat_all
HbMainServe ==
    /\ hb_pc = "serve"
    /\ hb_pc' = "for"
    /\ UNCHANGED <<hb_endpoints, last_statuses, hb_i, hb_status, hb_cycle,
                   stderr, hb_events, classified, probed>>
    /\ UNCHANGED <<launchVars, waitVars, now, regVars, callVars, jobVars, ssh_conn,
                   cliVars>>

\* the query server has been started: queries are answered from the registry
Serving == hb_pc \in {"for", "log", "sleep"}

\* The two processes have a registry each: a behaviour follows one of them.
NextStartup ==
    \/ hb_pc = "none" /\ NextLaunch
    \/ HbMainRegister
    \/ HbMainServe
    \/ NextHeartbeat

SpecStartup == (InitLaunch \/ InitMonitorMain) /\ [][NextStartup]_vars

\* the positions of launch_instances from the readiness barrier to its end
BarrierPositions == {"wait_init", "while", "for", "returned", "exit_timeout"}

\* C32: a service record has status healthy only if a probe of its endpoint
\* answered HTTP 200 after the record was registered.  The launcher has every
\* instance registered as starting throughout the readiness barrier and a
\* record is healthy only when launch_instances is done and the barrier saw
\* 200 from that endpoint; the heartbeat process has every endpoint registered
\* as starting before the query server is started and before the first probe,
\* so while the server is serving no monitored service is missing, and none
\* is healthy without a probe of it that answered 200.
C32_HealthyOnlyAfterProbe ==
    /\ hb_pc = "none" =>
          \A k \in DOMAIN endpoints :
              LET id == ServiceId(endpoints[k]) IN
              /\ pc \in BarrierPositions =>
                    Exists(Reg, id) /\ get_service(Reg, id).status = STARTING
              /\ (Exists(Reg, id) /\ get_service(Reg, id).status = HEALTHY) =>
                    pc = "done" /\ endpoints[k] \in ready
    /\ hb_pc # "none" =>
          \A id \in Range(hb_endpoints) :
              /\ Serving => Exists(Reg, id)
              /\ hb_pc = "serve" =>
                    /\ Exists(Reg, id)
                    /\ get_service(Reg, id).status = STARTING
                    /\ probed[id] = << >>
              /\ (Exists(Reg, id) /\ get_service(Reg, id).status = HEALTHY) =>
                    "200" \in Range(probed[id])

\* the launcher is done with two instances, both healthy and both in the
\* ready set of the barrier
C32_LauncherDone ==
    /\ pc = "done"
    /\ Len(endpoints) = 2
    /\ \A k \in DOMAIN endpoints :
          /\ get_service(Reg, ServiceId(endpoints[k])).status = HEALTHY
          /\ endpoints[k] \in ready

\* the query server of the heartbeat process is serving: one service is still
\* starting and not probed, the other is healthy after a probe answered 200
C32_Witness ==
    /\ Serving
    /\ \E a, b \in Range(hb_endpoints) :
          /\ get_service(Reg, a).status = STARTING
          /\ probed[a] = << >>
          /\ get_service(Reg, b).status = HEALTHY
          /\ probed[b] = <<"200">>

-----------------------------------------------------------------------------
(* The placement as launch_instances and _register_instances compute it *)

\* _register_instances has run
InstancesRegistered == pc \in BarrierPositions \cup {"done"}

\* C37: for every configuration and node list for which the launch succeeds,
\* the (head node, port) pairs recomputed in _register_instances are the
\* endpoints computed in launch_instances, the recomputation does not fail,
\* and every launched endpoint is registered with its host and port and with
\* the model and the tensor_parallel_size of the model that produced it.
C37_PlacementsAgree ==
    /\ pc = "register" =>
          LET walk == ModelLookup(config, nodes, Order, 1, 0, Empty)
          IN  /\ ~walk.raised
              /\ DOMAIN walk.lookup = Range(endpoints)
              /\ \A k \in DOMAIN endpoints : walk.lookup[endpoints[k]] = Order[k]
    /\ InstancesRegistered =>
          \A k \in DOMAIN endpoints :
              LET service == get_service(Reg, ServiceId(endpoints[k])) IN
              /\ Exists(Reg, ServiceId(endpoints[k]))
              /\ service.host = endpoints[k][1]
              /\ service.port = endpoints[k][2]
              /\ service.metadata =
                    [model |-> Order[k],
                     tensor_parallel_size |->
                        config.models[Order[k]].tensor_parallel_size]

\* an instance on two nodes was followed by an instance of the second model,
\* and both are registered
C37_Witness ==
    /\ InstancesRegistered
    /\ Len(endpoints) = 2
    /\ NpiOf(1) = 2
    /\ Order = <<1, 2>>
    /\ get_service(Reg, ServiceId(endpoints[2])).metadata.model = 2

-----------------------------------------------------------------------------
(* scheduler.py: wait_for_endpoints.  The scheduler and the job are the     *)
(* environment: what qstat prints and what the endpoints file holds change  *)
(* at any time while the function polls.                                    *)

MaxPolls == 5         \* polls whose job state is recorded in `observed`

JobId == "1234.pbs"

\* what the endpoints file holds: no file, a file of size 0, a file of
\* white space only, a file with endpoint lines
FileContents == {"absent", "empty", "blank", "lines"}

\* the endpoint lines of a file that has some
EndpointLines == <<"n1:8000", "n2:8001">>

\* the endpoint lines of a file that an earlier run has left behind
StaleLines == <<"n8:8000", "n9:8001">>

\* the lines of a file with endpoint lines: "lines" is what the job writes,
\* "stale" what was on disk before the submission
LinesIn(content) == IF content = "stale" THEN StaleLines ELSE EndpointLines

\* what `qstat -f job_id` gives: a job_state line, no such line, or a
\* non-zero return code (the job is unknown to the scheduler, or the command
\* or the connection that carries it failed)
JobStates == {"Q", "R", "H"}
QstatOutputs ==
    {[returncode |-> 0, job_state |-> st] : st \in JobStates \cup {NoneStr}}
    \cup {[returncode |-> 1, job_state |-> NoneStr]}

\* what the scheduler can answer: for a job it does not know, `qstat -f`
\* returns non-zero; for a job it knows, one query may still fail or print
\* an output without a job_state line
SchedulerViews ==
    {v \in BOOLEAN \X QstatOutputs : v[1] \/ v[2].returncode # 0}

\* _get_job_state on an output of qstat
get_job_state(out) ==
    IF out.returncode # 0 THEN NoneStr ELSE out.job_state

\* (faulty variant) a remote file is never seen
read_endpoints_file_LocalOnly(content, remote) ==
    IF remote THEN None
    ELSE IF content \in {"blank", "lines", "stale"}
         THEN (IF content = "blank" THEN << >> ELSE LinesIn(content))
         ELSE None

\* _read_endpoints_file: over ssh, `test -s f && cat f` and a non-blank
\* output; locally, is_file(), st_size > 0, then read_text().strip().splitlines()
read_endpoints_file(content, remote) ==
    IF remote
    THEN (IF content \in {"lines", "stale"} THEN LinesIn(content) ELSE None)
    ELSE IF content \in {"blank", "lines", "stale"}
         THEN (IF content = "blank" THEN << >> ELSE LinesIn(content))
         ELSE None

\* SSHConnection.connect succeeded: the ControlMaster session is open
Connected(c) == [c EXCEPT !.state = "open", !.opens = @ + 1]

\* SSHConnection.close: `ssh -O exit`
Closed(c) == [c EXCEPT !.state = "closed", !.closes = @ + 1]

\* SSHConnection.run / scp_to / scp_from: a command or a transfer over the
\* control socket; `remote` says whether a connection object was given
RemoteUse(c, remote) ==
    IF remote THEN [c EXCEPT !.stray = @ \/ c.state # "open"] ELSE c

\* `if endpoints:` is false for None and for the empty list
Truthy(eps) == eps # None /\ eps # << >>

\* (faulty variant) a job without state is polled on
Untracked_Never(state) == FALSE

\* `if state is None`
Untracked(state) == state = NoneStr

InitJobWait ==
    /\ NoLaunch
    /\ NoWait
    /\ NoCalls
    /\ NoMonitor
    /\ EmptyRegistry
    /\ now = 0
    /\ job_pc = "read"
    /\ ssh \in BOOLEAN
    /\ endpoints_file = "absent"
    /\ \E v \in SchedulerViews : job_tracked = v[1] /\ qstat = v[2]
    /\ last_state = NoneStr
    /\ observed = << >>
    /\ local_copy = FALSE
    /\ job_result = None
    /\ ssh_conn = IF ssh THEN Connected(NoConnection) ELSE NoConnection
    /\ args = None
    /\ cli_pc = "none"
    /\ cli = None

JobFrame ==
    UNCHANGED <<launchVars, waitVars, now, regVars, callVars, monitorVars,
                cliVars>>

\* the scheduler moves the job, or forgets it
SchedulerMoves ==
    /\ job_pc \in {"read", "qstat"}
    /\ \E v \in SchedulerViews \ {<<job_tracked, qstat>>} :
          /\ job_tracked' = v[1]
          /\ qstat' = v[2]
    /\ UNCHANGED <<job_pc, ssh, endpoints_file, last_state, observed,
                   local_copy, job_result, ssh_conn>>
    /\ JobFrame

\* the job writes, truncates or removes the endpoints file
FileChanges ==
    /\ job_pc \in {"read", "qstat"}
    /\ \E content \in FileContents \ {endpoints_file} : endpoints_file' = content
    /\ UNCHANGED <<job_pc, ssh, job_tracked, qstat, last_state, observed,
                   local_copy, job_result, ssh_conn>>
    /\ JobFrame

\* top of the loop: the endpoints file is read; when it gives endpoints they
\* are returned, after ssh.scp_from when a connection is given (scp failing
\* is sys.exit(1))
JwRead ==
    /\ job_pc = "read"
    /\ LET eps == read_endpoints_file(endpoints_file, ssh) IN
          IF Truthy(eps)
          THEN IF ssh
               THEN \E scp_ok \in BOOLEAN :
                      IF scp_ok
                      THEN /\ local_copy' = TRUE
                           /\ job_result' = [returned |-> eps]
                           /\ job_pc' = "returned"
                      ELSE /\ job_result' = [code |-> 1, message |-> "scp failed"]
                           /\ job_pc' = "exit"
                           /\ UNCHANGED local_copy
               ELSE /\ job_result' = [returned |-> eps]
                    /\ job_pc' = "returned"
                    /\ UNCHANGED local_copy
          ELSE /\ job_pc' = "qstat"
               /\ UNCHANGED <<local_copy, job_result>>
    /\ ssh_conn' = RemoteUse(ssh_conn, ssh)
    /\ UNCHANGED <<ssh, endpoints_file, job_tracked, qstat, last_state,
                   observed>>
    /\ JobFrame

\* the job state is asked for; no state is sys.exit(1) with a message that
\* holds job_id; otherwise the state is printed, the function sleeps and
\* the loop starts again
JwQstat ==
    /\ job_pc = "qstat"
    /\ LET state == get_job_state(qstat) IN
          /\ observed' = IF Len(observed) < MaxPolls
                         THEN Append(observed, state) ELSE observed
          /\ IF Untracked(state)
             THEN /\ job_result' = [code |-> 1, message |-> "no longer tracked",
                                    job_id |-> JobId]
                  /\ job_pc' = "exit"
                  /\ UNCHANGED last_state
             ELSE /\ last_state' = IF state # last_state THEN state ELSE last_state
                  /\ job_pc' = "read"
                  /\ UNCHANGED job_result
    /\ ssh_conn' = RemoteUse(ssh_conn, ssh)
    /\ UNCHANGED <<ssh, endpoints_file, job_tracked, qstat, local_copy>>
    /\ JobFrame

JobWaitNext ==
    \/ JwRead
    \/ JwQstat

NextJobWait ==
    \/ JobWaitNext
    \/ SchedulerMoves
    \/ FileChanges

SpecJobWait == InitJobWait /\ [][NextJobWait]_vars

\* the function's own steps are taken as long as it runs
SpecJobWaitFair == SpecJobWait /\ WF_vars(JobWaitNext)

\* the process has exited because the job had no state
ExitUntracked == job_pc = "exit" /\ job_result.message = "no longer tracked"

\* C18: when a poll that found no endpoints asks for the job state and gets
\* none, the process exits with a non-zero code and a message that names the
\* job id, and it exits for this reason at no other poll: after the states
\* Q, Q, R, R and then no state, the exit is at the fifth poll.
C18_UntrackedExits ==
    /\ [](ExitUntracked => job_result.code # 0 /\ job_result.job_id = JobId)
    /\ [](observed # << >> /\ observed[Len(observed)] = NoneStr => ExitUntracked)
    /\ [](Len(observed) < MaxPolls /\ NoneStr \notin Range(observed)
            => ~ExitUntracked)
    /\ [][job_pc = "qstat" /\ job_pc' # "qstat" =>
            (job_pc' = "exit" <=> get_job_state(qstat) = NoneStr)]_vars

\* the polls saw Q, Q, R, R and then no state, the file never there at a check
C18_Witness ==
    /\ observed = <<"Q", "Q", "R", "R", NoneStr>>
    /\ ExitUntracked
    /\ endpoints_file = "absent"

\* the lines of a file of size > 0
FileLines(content) == IF content = "lines" THEN EndpointLines ELSE << >>

\* the step that checks the endpoints file
ReadStep == job_pc = "read" /\ job_pc' # "read"

\* in every iteration the file is checked first and the job state second
FileBeforeState ==
    /\ job_pc' = "qstat" /\ job_pc # "qstat" => job_pc = "read"
    /\ job_pc = "qstat" /\ job_pc' \notin {"qstat", "exit"} => job_pc' = "read"

C20_WaitHasDeadline ==
    [](get_job_state(qstat) # NoneStr /\ endpoints_file = "absent")
        => <>(job_pc = "exit")

\* a state query that failed, or printed no job_state line, for a job the
\* scheduler knows
TransientQueryFailure == job_tracked /\ get_job_state(qstat) = NoneStr

\* C21: a poll whose state query fails once (non-zero exit, or no job_state
\* line) while the scheduler still tracks the job does not end the wait: the
\* loop goes to its next poll and asks again.
C21_TransientQuerySwallowed ==
    [][job_pc = "qstat" /\ job_pc' # "qstat" /\ TransientQueryFailure
          => job_pc' = "read"]_vars

\* C29: the wait never ends in the fatal exit of an untracked job while the
\* endpoints file holds endpoint lines: when the job writes the file and
\* leaves the scheduler between the file check and the state query of one
\* poll, the wait still returns the lines.  (Stated for a job that an earlier
\* poll has seen alive.)
C29_NoFatalExitWithArtifact ==
    /\ ExitUntracked
    /\ ~job_tracked
    /\ Len(observed) > 1 /\ observed[1] # NoneStr
    => endpoints_file # "lines"

-----------------------------------------------------------------------------
(* The two readers of the endpoints file: scheduler._read_endpoints_file   *)
(* and cli._read_endpoints_file.  A text is a sequence of characters; "NL"  *)
(* is the newline, "n" stands for a character of a host:port pair.          *)

MaxText == 4          \* longest file text, in characters

Chars == {"n", "#", " ", "NL"}

RECURSIVE TextsOfLen(_)
TextsOfLen(k) ==
    IF k = 0 THEN {<< >>}
    ELSE {Append(t, c) : t \in TextsOfLen(k - 1), c \in Chars}

Texts == UNION {TextsOfLen(k) : k \in 0..MaxText}

\* str.isspace for the characters of the model
IsSpace(c) == c \in {" ", "NL"}

RECURSIVE lstrip(_)
lstrip(t) == IF t # << >> /\ IsSpace(Head(t)) THEN lstrip(Tail(t)) ELSE t

RECURSIVE rstrip(_)
rstrip(t) ==
    IF t # << >> /\ IsSpace(t[Len(t)]) THEN rstrip(SubSeq(t, 1, Len(t) - 1))
    ELSE t

\* str.strip()
strip(t) == rstrip(lstrip(t))

\* position of the first newline of t, 0 when there is none
FirstNL(t) ==
    IF \E k \in DOMAIN t : t[k] = "NL"
    THEN CHOOSE k \in DOMAIN t : t[k] = "NL" /\ \A j \in 1..(k - 1) : t[j] # "NL"
    ELSE 0

\* str.splitlines(): the lines without their newline; no last empty line
RECURSIVE splitlines(_)
splitlines(t) ==
    IF t = << >> THEN << >>
    ELSE IF FirstNL(t) = 0 THEN <<t>>
    ELSE <<SubSeq(t, 1, FirstNL(t) - 1)>>
             \o splitlines(SubSeq(t, FirstNL(t) + 1, Len(t)))

\* `for line in f`: the lines with their newline
RECURSIVE FileLinesOf(_)
FileLinesOf(t) ==
    IF t = << >> THEN << >>
    ELSE IF FirstNL(t) = 0 THEN <<t>>
    ELSE <<SubSeq(t, 1, FirstNL(t))>>
             \o FileLinesOf(SubSeq(t, FirstNL(t) + 1, Len(t)))

\* str.startswith("#")
IsComment(line) == line # << >> /\ Head(line) = "#"

\* cli._read_endpoints_file: `if line and not line.startswith("#")`
KeepLine(line) == line # << >> /\ ~IsComment(line)

RECURSIVE StripEach(_)
StripEach(ls) ==
    IF ls = << >> THEN << >> ELSE <<strip(Head(ls))>> \o StripEach(Tail(ls))

\* cli._read_endpoints_file on a file that exists (its callers test
\* os.path.exists first)
cli_read_endpoints_file(text) ==
    SelectSeq(StripEach(FileLinesOf(text)), KeepLine)

\* a list of lines as a return value that may also be None
Lines(ls) == [lines |-> ls]

\* scheduler._read_endpoints_file on a file that exists or not, with its
\* text: over ssh, `test -s f && cat f` succeeds for a file of size > 0 and
\* the output must be non-blank; locally, is_file() and st_size > 0
scheduler_read_endpoints_file(exists, text, remote) ==
    IF ~exists \/ text = << >> THEN None
    ELSE IF remote /\ strip(text) = << >> THEN None
    ELSE Lines(splitlines(strip(text)))

\* a reader's answer as a list of endpoints: None is no endpoint
AsList(eps) == IF eps = None THEN << >> ELSE eps.lines

\* the files a reader can meet: no file, or a file with a text
EndpointFiles ==
    {[exists |-> FALSE, text |-> << >>]}
    \cup {[exists |-> TRUE, text |-> t] : t \in Texts}

InitReaders ==
    /\ NoLaunch
    /\ NoWait
    /\ NoCalls
    /\ NoMonitor
    /\ NoJob
    /\ EmptyRegistry
    /\ now = 0
    /\ ssh_conn = NoConnection
    /\ args \in [file : EndpointFiles, remote : BOOLEAN]
    /\ cli_pc = "start"
    /\ cli = None

CliFrame ==
    UNCHANGED <<launchVars, waitVars, now, regVars, callVars, monitorVars,
                jobVars>>

\* the job-lifecycle reader and then the benchmark/shutdown reader read the
\* same file
ReadByScheduler ==
    /\ cli_pc = "start"
    /\ cli' = [scheduler |-> scheduler_read_endpoints_file(
                                 args.file.exists, args.file.text, args.remote)]
    /\ cli_pc' = "read_once"
    /\ UNCHANGED <<args, ssh_conn>>
    /\ CliFrame

\* cmd_bench and cmd_shutdown read the file only when os.path.exists says
\* it is there; without it they have no endpoints
ReadByCli ==
    /\ cli_pc = "read_once"
    /\ cli' = [scheduler |-> cli.scheduler,
               cli |-> IF args.file.exists
                       THEN cli_read_endpoints_file(args.file.text)
                       ELSE << >>]
    /\ cli_pc' = "read_both"
    /\ UNCHANGED <<args, ssh_conn>>
    /\ CliFrame

NextReaders ==
    \/ ReadByScheduler
    \/ ReadByCli

SpecReaders == InitReaders /\ [][NextReaders]_vars

\* every line of the text that is not blank is a comment line
OnlyComments(text) ==
    /\ \E k \in DOMAIN FileLinesOf(text) : IsComment(strip(FileLinesOf(text)[k]))
    /\ \A k \in DOMAIN FileLinesOf(text) :
          strip(FileLinesOf(text)[k]) # << >> => IsComment(strip(FileLinesOf(text)[k]))

\* C25: for every file text the endpoint list of the job-lifecycle reader
\* equals the list of the benchmark/shutdown reader, so both ignore comment
\* lines and blank lines, and a file of comment lines only gives no endpoint
\* to either.
C25_ReadersAgree ==
    cli_pc = "read_both" =>
        /\ AsList(cli.scheduler) = cli.cli
        /\ OnlyComments(args.file.text) =>
              AsList(cli.scheduler) = << >> /\ cli.cli = << >>

-----------------------------------------------------------------------------
(* cli.cmd_submit and cli.cmd_shutdown with scheduler.submit_job,          *)
(* scheduler.submit_job_remote and the SSHConnection they use.            *)

\* what the qsub command gives
QsubOutputs(stdouts) == [returncode : {0, 1}, stdout : stdouts]

SubmitArgs(waits, stdouts) ==
    [command : {"submit"}, model : BOOLEAN, account : BOOLEAN,
     dry_run : BOOLEAN, remote : BOOLEAN, wait : waits,
     qsub : QsubOutputs(stdouts)]

\* pkill_returncode: what the mpiexec that kills the processes returns; it
\* is run only when the endpoints file exists
ShutdownArgs ==
    {a \in [command : {"shutdown"}, has_endpoints : BOOLEAN, job_id : BOOLEAN,
            remote : BOOLEAN, pkill_returncode : {0, 1}] :
        ~a.has_endpoints => a.pkill_returncode = 0}

\* a job id as a return value that may also be None
Text(t) == [text |-> t]

InitCli(argset) ==
    /\ NoLaunch
    /\ NoWait
    /\ NoCalls
    /\ NoMonitor
    /\ NoJob
    /\ EmptyRegistry
    /\ now = 0
    /\ ssh_conn = NoConnection
    /\ args \in argset
    /\ cli_pc = "start"
    /\ cli = [job_id |-> None, pending |-> "none"]

\* the command function is left: by return, by sys.exit or by an error
CliOver == cli_pc \in {"done", "exit", "raised"}

\* cmd_submit up to the connection: no model or no account is sys.exit(1),
\* --dry-run prints the script and returns
CmdSubmit ==
    /\ cli_pc = "start"
    /\ args.command = "submit"
    /\ cli_pc' = IF ~args.model \/ ~args.account THEN "exit"
                 ELSE IF args.dry_run THEN "done"
                 ELSE IF args.remote THEN "connect"
                 ELSE "try"
    /\ UNCHANGED <<args, cli, ssh_conn>>
    /\ CliFrame

\* cmd_shutdown up to the connection: neither endpoints file nor job id is
\* sys.exit(1); the processes of the endpoints file are killed with a local
\* mpiexec, whose return code (args.pkill_returncode) is printed and has no
\* other effect; without --job-id the function returns
CmdShutdown ==
    /\ cli_pc = "start"
    /\ args.command = "shutdown"
    /\ cli_pc' = IF ~args.has_endpoints /\ ~args.job_id THEN "exit"
                 ELSE IF ~args.job_id THEN "done"
                 ELSE IF args.remote THEN "connect"
                 ELSE "try"
    /\ UNCHANGED <<args, cli, ssh_conn>>
    /\ CliFrame

\* ssh = SSHConnection(args.remote); ssh.connect(): a failure is sys.exit(1),
\* before the try statement
SshConnect ==
    /\ cli_pc = "connect"
    /\ \E ok \in BOOLEAN :
          IF ok
          THEN /\ ssh_conn' = Connected(ssh_conn)
               /\ cli_pc' = "try"
          ELSE /\ cli_pc' = "exit"
               /\ UNCHANGED ssh_conn
    /\ UNCHANGED <<args, cli>>
    /\ CliFrame

\* lines 154-160: with --wait the file is removed, locally by
\* Path.unlink(missing_ok=True), which removes it or raises, remotely by
\* ssh.run("rm -f ..."), whose return code is not looked at
RemoveStale(content, wait, remote, rm_ok) ==
    IF ~wait THEN content
    ELSE IF remote THEN (IF rm_ok THEN "absent" ELSE content)
    ELSE "absent"

\* cmd_submit, start of the try block: with --wait the stale endpoints and
\* registry files are removed, over ssh when there is a connection (an
\* error raised by the local unlink is RaiseInTry)
SubmitRemoveStale ==
    /\ cli_pc = "try"
    /\ args.command = "submit"
    /\ ssh_conn' = RemoteUse(ssh_conn, args.wait /\ args.remote)
    /\ \E rm_ok \in BOOLEAN :
          endpoints_file' = RemoveStale(endpoints_file, args.wait, args.remote,
                                       rm_ok)
    /\ cli_pc' = "submit"
    /\ UNCHANGED <<args, cli>>
    /\ UNCHANGED <<job_pc, ssh, job_tracked, qstat, last_state, observed,
                   local_copy, job_result>>
    /\ UNCHANGED <<launchVars, waitVars, now, regVars, callVars, monitorVars>>

\* `job_id = result.stdout.strip()`
JobIdOf(stdout) == strip(stdout)

\* where cmd_submit goes after a submission that returned
AfterSubmit == IF args.wait THEN "wait" ELSE "finally"

\* submit_job: qsub on a temporary script file; a non-zero return code is
\* sys.exit(1), otherwise the job id is returned
SubmitJob ==
    /\ cli_pc = "submit"
    /\ ~args.remote
    /\ IF args.qsub.returncode # 0
       THEN /\ cli' = [cli EXCEPT !.pending = "exit"]
            /\ cli_pc' = "finally"
       ELSE /\ cli' = [cli EXCEPT !.job_id = Text(JobIdOf(args.qsub.stdout))]
            /\ cli_pc' = AfterSubmit
    /\ UNCHANGED <<args, ssh_conn>>
    /\ CliFrame

\* submit_job_remote: scp_to (a failure is sys.exit(1)), then qsub over ssh;
\* a non-zero return code removes the remote script and is sys.exit(1),
\* otherwise the job id is returned
SubmitJobRemote ==
    /\ cli_pc = "submit"
    /\ args.remote
    /\ ssh_conn' = RemoteUse(ssh_conn, TRUE)
    /\ \E scp_ok \in BOOLEAN :
          IF ~scp_ok \/ args.qsub.returncode # 0
          THEN /\ cli' = [cli EXCEPT !.pending = "exit"]
               /\ cli_pc' = "finally"
          ELSE /\ cli' = [cli EXCEPT !.job_id = Text(JobIdOf(args.qsub.stdout))]
               /\ cli_pc' = AfterSubmit
    /\ UNCHANGED args
    /\ CliFrame

\* lines 438-445: ssh.run returns whatever qdel did; the local
\* subprocess.run(..., check=True) raises CalledProcessError on a non-zero
\* return code
QdelRaises(remote, ok) == ~remote /\ ~ok

\* cmd_shutdown, the try block: qdel over ssh or locally; when nothing is
\* raised "Job <id> cancelled." is printed (line 446), a CalledProcessError
\* is caught and turned into sys.exit(1)
ShutdownQdel ==
    /\ cli_pc = "try"
    /\ args.command = "shutdown"
    /\ ssh_conn' = RemoteUse(ssh_conn, args.remote)
    /\ \E ok \in BOOLEAN :
          cli' = Merge(cli,
                       [pending |-> IF QdelRaises(args.remote, ok) THEN "exit"
                                    ELSE "none",
                        qdel_ok |-> ok,
                        cancelled_printed |-> ~QdelRaises(args.remote, ok)])
    /\ cli_pc' = "finally"
    /\ UNCHANGED args
    /\ CliFrame

\* an error is raised inside the try block (an OSError of a subprocess, a
\* TypeError of a call, a KeyboardInterrupt during the wait)
RaiseInTry ==
    /\ cli_pc \in {"try", "submit", "wait"}
    /\ cli' = [cli EXCEPT !.pending = "raised"]
    /\ cli_pc' = "finally"
    /\ UNCHANGED <<args, ssh_conn>>
    /\ CliFrame

\* how the command function ends after its finally block
EndOf(pending) ==
    IF pending = "exit" THEN "exit"
    ELSE IF pending = "raised" THEN "raised"
    ELSE "done"

\* (faulty variant) the session is closed at the end of the try block only
CloseInFinally_OnSuccess(c, pending) ==
    IF c.state = "open" /\ pending = "none" THEN Closed(c) ELSE c

\* `finally: if ssh: ssh.close()`
CloseInFinally(c, pending) ==
    IF c.state # "none" THEN Closed(c) ELSE c

Finally ==
    /\ cli_pc = "finally"
    /\ ssh_conn' = CloseInFinally(ssh_conn, cli.pending)
    /\ cli_pc' = EndOf(cli.pending)
    /\ UNCHANGED <<args, cli>>
    /\ CliFrame

\* submission without --wait, for every output of qsub
NextSubmit ==
    \/ CmdSubmit
    \/ SshConnect
    \/ SubmitRemoveStale
    \/ SubmitJob
    \/ SubmitJobRemote
    \/ RaiseInTry
    \/ Finally

SpecSubmit == InitCli(SubmitArgs({FALSE}, Texts)) /\ [][NextSubmit]_vars

\* the first line of an output
FirstLine(out) == splitlines(out)[1]

\* C27: the job id that submit_job and submit_job_remote return is the first
\* line of the output of the submit command, for every output of one or more
\* lines.  (Stated for outputs whose first line is not blank, and up to the
\* blanks around that line.)
C27_JobIdIsFirstLine ==
    /\ cli.job_id # None
    /\ splitlines(args.qsub.stdout) # << >>
    /\ strip(FirstLine(args.qsub.stdout)) # << >>
    => cli.job_id.text = strip(FirstLine(args.qsub.stdout))

\* cmd_submit with --wait calls wait_for_endpoints with the job id and the
\* connection; the stale endpoints file was removed before the submission
SubmitWaitCall ==
    /\ cli_pc = "wait"
    /\ cli_pc' = "waiting"
    /\ job_pc' = "read"
    /\ ssh' = args.remote
    /\ \E v \in SchedulerViews : job_tracked' = v[1] /\ qstat' = v[2]
    /\ UNCHANGED <<endpoints_file, last_state, observed, local_copy,
                   job_result>>
    /\ UNCHANGED <<args, cli, ssh_conn>>
    /\ UNCHANGED <<launchVars, waitVars, now, regVars, callVars, monitorVars>>

\* wait_for_endpoints has returned, or has called sys.exit(1)
SubmitWaitOver ==
    /\ cli_pc = "waiting"
    /\ job_pc \in {"returned", "exit"}
    /\ cli' = [cli EXCEPT !.pending = IF job_pc = "exit" THEN "exit" ELSE "none"]
    /\ cli_pc' = "finally"
    /\ UNCHANGED <<args, ssh_conn>>
    /\ CliFrame

\* the user interrupts the wait (KeyboardInterrupt)
InterruptWait ==
    /\ cli_pc = "waiting"
    /\ job_pc \in {"read", "qstat"}
    /\ job_pc' = "interrupted"
    /\ cli' = [cli EXCEPT !.pending = "raised"]
    /\ cli_pc' = "finally"
    /\ UNCHANGED <<ssh, endpoints_file, job_tracked, qstat, last_state,
                   observed, local_copy, job_result>>
    /\ UNCHANGED <<args, ssh_conn>>
    /\ UNCHANGED <<launchVars, waitVars, now, regVars, callVars, monitorVars>>

\* one invocation of `aegis submit` or of `aegis shutdown`
NextSession ==
    \/ CmdSubmit
    \/ CmdShutdown
    \/ SshConnect
    \/ SubmitRemoveStale
    \/ SubmitJob
    \/ SubmitJobRemote
    \/ SubmitWaitCall
    \/ JobWaitNext
    \/ SchedulerMoves
    \/ FileChanges
    \/ SubmitWaitOver
    \/ InterruptWait
    \/ ShutdownQdel
    \/ RaiseInTry
    \/ Finally

SessionArgs == SubmitArgs(BOOLEAN, {<<"n">>}) \cup ShutdownArgs

SpecSession == InitCli(SessionArgs) /\ [][NextSession]_vars

\* C22: in cmd_submit and cmd_shutdown the remote session is opened at most
\* once, and only for a remote target; no remote command or transfer is
\* issued while the session is not open; and when the command function is
\* left (by return, by sys.exit in the upload, the submission or the wait, or
\* by a raised error) a session that was opened has been closed exactly once.
C22_SessionScoped ==
    /\ ssh_conn.opens <= 1
    /\ ssh_conn.opens = 1 => args.remote
    /\ ~ssh_conn.stray
    /\ ssh_conn.closes <= ssh_conn.opens
    /\ ssh_conn.state = "open" => cli_pc \notin {"start", "connect"} /\ ~CliOver
    /\ CliOver /\ ssh_conn.opens = 1 =>
          ssh_conn.closes = 1 /\ ssh_conn.state = "closed"

\* a remote submission with --wait ended in the fatal exit of the wait, after
\* the session was used by the polls, and the session is closed
C22_Witness ==
    /\ args.command = "submit"
    /\ cli_pc = "exit"
    /\ ExitUntracked
    /\ Len(observed) > 1
    /\ ssh_conn = [state |-> "closed", opens |-> 1, closes |-> 1, stray |-> FALSE]

\* cmd_shutdown has issued the cancel command
QdelIssued == args.command = "shutdown" /\ "qdel_ok" \in DOMAIN cli

\* C39: cmd_shutdown prints 'Job <id> cancelled.' only when the cancel
\* command succeeded, run locally or through the remote session; when the
\* cancel command fails the invocation ends with a non-zero exit code; and a
\* failure of the process-kill step does not keep the cancel command from
\* being issued.
C39_CancelReportedTruthfully ==
    /\ QdelIssued /\ cli.cancelled_printed => cli.qdel_ok
    /\ QdelIssued /\ CliOver /\ ~cli.qdel_ok => cli_pc = "exit"
    /\ (/\ args.command = "shutdown"
        /\ args.job_id
        /\ args.pkill_returncode # 0
        /\ cli_pc = "done") => QdelIssued

-----------------------------------------------------------------------------
(* `aegis submit --wait` at a moment when the endpoints file of an earlier  *)
(* run may be on disk                                                       *)

InitResubmit ==
    /\ NoLaunch
    /\ NoWait
    /\ NoCalls
    /\ NoMonitor
    /\ EmptyRegistry
    /\ now = 0
    /\ job_pc = "none"
    /\ ssh = FALSE
    /\ endpoints_file \in {"absent", "stale"}
    /\ job_tracked = FALSE
    /\ qstat = NoneStr
    /\ last_state = NoneStr
    /\ observed = << >>
    /\ local_copy = FALSE
    /\ job_result = None
    /\ ssh_conn = NoConnection
    /\ args \in SubmitArgs({TRUE}, {<<"n">>})
    /\ cli_pc = "start"
    /\ cli = [job_id |-> None, pending |-> "none"]

NextResubmit ==
    \/ CmdSubmit
    \/ SshConnect
    \/ SubmitRemoveStale
    \/ SubmitJob
    \/ SubmitJobRemote
    \/ SubmitWaitCall
    \/ JobWaitNext
    \/ SchedulerMoves
    \/ FileChanges
    \/ SubmitWaitOver
    \/ InterruptWait
    \/ RaiseInTry
    \/ Finally

SpecResubmit == InitResubmit /\ [][NextResubmit]_vars

\* C38: with --wait, cmd_submit removes an existing endpoints file before the
\* job is submitted, locally or through the remote session, so that the
\* endpoints that wait_for_endpoints returns are never those left over from
\* an earlier run.
C38_NoStaleEndpoints ==
    job_pc = "returned" => job_result.returned # StaleLines

-----------------------------------------------------------------------------
(* cli.cmd_bench.  An endpoint is a sequence of tokens, "a", ":", "8000";  *)
(* the command line built for mpiexec is a sequence of items: the head     *)
(* ("mpiexec --no-abort-on-failure"), one item per segment ("-n", "-hosts"  *)
(* and the per-rank command) and one item per ":" separator.               *)

MaxEndpoints == 3     \* longest endpoint list

BenchHosts == {"a", "b", "c"}
BenchPorts == {"8000", "8001"}

\* host:port endpoints, and one line without a colon
BenchEndpoints ==
    {<<h, ":", p>> : h \in BenchHosts, p \in BenchPorts} \cup {<<"a">>}

RECURSIVE EndpointListsOfLen(_)
EndpointListsOfLen(k) ==
    IF k = 0 THEN {<< >>}
    ELSE {Append(l, e) : l \in EndpointListsOfLen(k - 1), e \in BenchEndpoints}

EndpointLists == UNION {EndpointListsOfLen(k) : k \in 0..MaxEndpoints}

\* position of the last ":" of an endpoint, 0 when there is none
LastColon(ep) ==
    IF \E k \in DOMAIN ep : ep[k] = ":"
    THEN CHOOSE k \in DOMAIN ep :
            ep[k] = ":" /\ \A j \in (k + 1)..Len(ep) : ep[j] # ":"
    ELSE 0

\* ep.rsplit(":", 1)
rsplit(ep) ==
    IF LastColon(ep) = 0 THEN <<ep>>
    ELSE <<SubSeq(ep, 1, LastColon(ep) - 1),
           SubSeq(ep, LastColon(ep) + 1, Len(ep))>>

\* `host, port = ...` needs two parts, otherwise ValueError
Unpacks(ep) == Len(rsplit(ep)) = 2

\* (faulty variant) every endpoint opens a group of its own
setdefault_append_NewGroup(d, port, host) ==
    Append(d, [port |-> port, hosts |-> <<host>>])

\* hosts_by_port.setdefault(port, []).append(host) on a dict that keeps the
\* order in which its keys were inserted
setdefault_append(d, port, host) ==
    IF \E i \in DOMAIN d : d[i].port = port
    THEN [i \in DOMAIN d |->
            IF d[i].port = port
            THEN [d[i] EXCEPT !.hosts = Append(@, host)]
            ELSE d[i]]
    ELSE Append(d, [port |-> port, hosts |-> <<host>>])

\* the loop over endpoints that fills hosts_by_port
RECURSIVE GroupByPort(_, _)
GroupByPort(eps, d) ==
    IF eps = << >> THEN d
    ELSE GroupByPort(Tail(eps),
                     setdefault_append(d, rsplit(Head(eps))[2], rsplit(Head(eps))[1]))

\* args.extra_args as argparse.REMAINDER leaves them: none, a target port,
\* the same after the "--" separator
ExtraArgs == {<< >>, <<"--port", <<"8000">>>>, <<"--", "--port", <<"8001">>>>}

\* lines 311-314: a leading "--" is stripped
StripSeparator(extra) ==
    IF extra # << >> /\ Head(extra) = "--" THEN Tail(extra) ELSE extra

\* the per-rank command: vllm bench serve with the model, the number of
\* prompts, the result directory and the extra arguments; neither the port
\* nor the hosts of the group are used in it
RankCmd(result_dir) ==
    [program |-> "vllm bench serve", result_dir |-> result_dir,
     extra |-> StripSeparator(args.extra_args)]

\* mpi_cmd.extend(["-n", str(len(hosts)), "-hosts", ",".join(hosts), ...])
Segment(hosts, result_dir) ==
    [kind |-> "segment", n |-> Len(hosts), hosts |-> hosts,
     rank_cmd |-> RankCmd(result_dir)]

Separator == [kind |-> "sep"]

\* the loop over hosts_by_port.items() that extends mpi_cmd
RECURSIVE BuildSegments(_, _, _)
BuildSegments(groups, first, result_dir) ==
    IF groups = << >> THEN << >>
    ELSE (IF first THEN << >> ELSE <<Separator>>)
         \o <<Segment(Head(groups).hosts, result_dir)>>
         \o BuildSegments(Tail(groups), FALSE, result_dir)

build_mpi_cmd(groups, result_dir) ==
    <<[kind |-> "mpiexec"]>> \o BuildSegments(groups, TRUE, result_dir)

\* the runs of cmd_bench: where the endpoints come from, what they are, how
\* mpiexec ends and whether the result files can be parsed
BenchArgs ==
    {a \in [command : {"bench"}, use_registry : BOOLEAN, file_exists : BOOLEAN,
            endpoints : EndpointLists, extra_args : ExtraArgs,
            returncode : {0, 1}, parse_ok : BOOLEAN] :
        \* no file, no endpoints; with the registry the file is not looked at
        /\ ~a.use_registry /\ ~a.file_exists => a.endpoints = << >>
        /\ a.use_registry => a.file_exists}

ResultDir == "aegis_bench_1"

InitBench ==
    /\ NoLaunch
    /\ NoWait
    /\ NoCalls
    /\ NoMonitor
    /\ NoJob
    /\ EmptyRegistry
    /\ now = 0
    /\ ssh_conn = NoConnection
    /\ args \in BenchArgs
    /\ cli_pc = "start"
    /\ cli = [endpoints |-> << >>, dirs |-> {}, hosts_by_port |-> << >>,
              mpi_cmd |-> << >>, pending |-> "none", code |-> 0]

\* the endpoints are resolved, from the registry or from the endpoints file;
\* a missing file and an empty list are sys.exit(1)
BenchResolve ==
    /\ cli_pc = "start"
    /\ IF (~args.use_registry /\ ~args.file_exists) \/ args.endpoints = << >>
       THEN /\ cli' = [cli EXCEPT !.code = 1]
            /\ cli_pc' = "exit"
       ELSE /\ cli' = [cli EXCEPT !.endpoints = args.endpoints]
            /\ cli_pc' = "build"
    /\ UNCHANGED <<args, ssh_conn>>
    /\ CliFrame

\* the result directory is made, the endpoints are grouped by port (a line
\* without ":" is a ValueError) and the mpiexec command is built
BenchBuild ==
    /\ cli_pc = "build"
    /\ IF \A k \in DOMAIN cli.endpoints : Unpacks(cli.endpoints[k])
       THEN /\ cli' = [cli EXCEPT
                         !.dirs = @ \cup {ResultDir},
                         !.hosts_by_port = GroupByPort(cli.endpoints, << >>),
                         !.mpi_cmd = build_mpi_cmd(
                             GroupByPort(cli.endpoints, << >>), ResultDir)]
            /\ cli_pc' = "run"
       ELSE /\ cli' = [cli EXCEPT !.dirs = @ \cup {ResultDir},
                                  !.pending = "raised"]
            /\ cli_pc' = "raised"
    /\ UNCHANGED <<args, ssh_conn>>
    /\ CliFrame

\* the try block: mpiexec runs; a non-zero return code is
\* sys.exit(returncode); otherwise the result files are parsed and printed
BenchRun ==
    /\ cli_pc = "run"
    /\ cli' = IF args.returncode # 0
              THEN [cli EXCEPT !.pending = "exit", !.code = args.returncode]
              ELSE IF ~args.parse_ok
              THEN [cli EXCEPT !.pending = "raised"]
              ELSE cli
    /\ cli_pc' = "finally"
    /\ UNCHANGED <<args, ssh_conn>>
    /\ CliFrame

\* (faulty variant) the directory is removed after a good run only
rmtree_OnSuccess(dirs, pending) ==
    IF pending = "none" THEN dirs \ {ResultDir} ELSE dirs

\* `finally: shutil.rmtree(result_dir, ignore_errors=True)`
rmtree(dirs, pending) == dirs \ {ResultDir}

BenchFinally ==
    /\ cli_pc = "finally"
    /\ cli' = [cli EXCEPT !.dirs = rmtree(cli.dirs, cli.pending)]
    /\ cli_pc' = EndOf(cli.pending)
    /\ UNCHANGED <<args, ssh_conn>>
    /\ CliFrame

NextBench ==
    \/ BenchResolve
    \/ BenchBuild
    \/ BenchRun
    \/ BenchFinally

SpecBench == InitBench /\ [][NextBench]_vars

\* the distinct ports of a list of endpoints, in order of first appearance
RECURSIVE PortsInOrder(_, _)
PortsInOrder(eps, seen) ==
    IF eps = << >> THEN << >>
    ELSE IF rsplit(Head(eps))[2] \in seen THEN PortsInOrder(Tail(eps), seen)
    ELSE <<rsplit(Head(eps))[2]>>
             \o PortsInOrder(Tail(eps), seen \cup {rsplit(Head(eps))[2]})

\* the hosts of the endpoints with a port, in input order
RECURSIVE HostsWithPort(_, _)
HostsWithPort(eps, port) ==
    IF eps = << >> THEN << >>
    ELSE (IF rsplit(Head(eps))[2] = port THEN <<rsplit(Head(eps))[1]>> ELSE << >>)
         \o HostsWithPort(Tail(eps), port)

IsSegment(item) == item.kind = "segment"

\* the segments of a command, in order
SegmentsOf(cmd) == SelectSeq(cmd, IsSegment)

RECURSIVE SumRanks(_)
SumRanks(segs) == IF segs = << >> THEN 0 ELSE Head(segs).n + SumRanks(Tail(segs))

\* cmd_bench has built its command
CommandBuilt == cli_pc \in {"run", "finally", "done", "exit"} /\ cli.mpi_cmd # << >>

ExampleEndpoints == <<<<"a", ":", "8000">>, <<"b", ":", "8000">>, <<"c", ":", "8001">>>>

\* C23: the command built by cmd_bench has one segment per distinct port, in
\* order of first appearance of the port; the hosts of a segment are the
\* hosts of the endpoints with that port in input order, its rank count is
\* the number of these hosts, the rank counts sum to the number of endpoints,
\* and between two consecutive segments there is exactly one ":" item; for
\* a:8000, b:8000, c:8001 there are two segments, hosts a,b and host c.
C23_SegmentPerPort ==
    CommandBuilt =>
        LET segs == SegmentsOf(cli.mpi_cmd)
            ports == PortsInOrder(cli.endpoints, {})
        IN  /\ Len(segs) = Len(ports)
            /\ \A i \in DOMAIN segs :
                  /\ segs[i].hosts = HostsWithPort(cli.endpoints, ports[i])
                  /\ segs[i].n = Len(segs[i].hosts)
            /\ SumRanks(segs) = Len(cli.endpoints)
            /\ Len(cli.mpi_cmd) = 2 * Len(segs)
            /\ cli.mpi_cmd[1].kind = "mpiexec"
            /\ \A k \in 2..Len(cli.mpi_cmd) :
                  cli.mpi_cmd[k].kind = IF k % 2 = 0 THEN "segment" ELSE "sep"
            /\ cli.endpoints = ExampleEndpoints =>
                  /\ Len(segs) = 2
                  /\ segs[1].hosts = <<<<"a">>, <<"b">>>>
                  /\ segs[2].hosts = <<<<"c">>>>

\* the command for a:8000, b:8000, c:8001 was built and run
C23_Witness ==
    /\ cli_pc = "done"
    /\ cli.endpoints = ExampleEndpoints
    /\ Len(SegmentsOf(cli.mpi_cmd)) = 2
    /\ cli.mpi_cmd[3] = Separator

\* cmd_bench is over after it ran mpiexec
BenchRan == CliOver /\ cli.mpi_cmd # << >>

\* C24: when mpiexec exits with a non-zero code, cmd_bench exits with a
\* failure code and the result directory it made is removed; the directory
\* is removed as well when the run succeeds.
C24_ResultDirRemoved ==
    /\ BenchRan /\ args.returncode # 0 =>
          cli_pc = "exit" /\ cli.code # 0 /\ ResultDir \notin cli.dirs
    /\ BenchRan /\ args.returncode = 0 => ResultDir \notin cli.dirs
    /\ cli_pc = "done" => cli.code = 0 /\ args.returncode = 0

\* mpiexec failed, cmd_bench has exited with its code, the directory is gone
C24_Witness ==
    /\ cli_pc = "exit"
    /\ cli.mpi_cmd # << >>
    /\ args.returncode = 1
    /\ cli.code = 1
    /\ cli.dirs = {}

\* the ports a per-rank command names as its target: one or none
TargetPorts(rank_cmd) ==
    IF Len(rank_cmd.extra) >= 2 /\ rank_cmd.extra[1] = "--port"
    THEN <<rank_cmd.extra[2]>> ELSE << >>

\* C33: in a command built by cmd_bench for endpoints on two or more ports,
\* the per-rank command of a segment refers to the port of that segment, and
\* two segments for different ports run commands that differ.
C33_RanksTargetSegmentPort ==
    CommandBuilt =>
        LET segs == SegmentsOf(cli.mpi_cmd)
            ports == PortsInOrder(cli.endpoints, {})
        IN  Len(segs) > 1 =>
              /\ \A i \in DOMAIN segs :
                    TargetPorts(segs[i].rank_cmd) = <<ports[i]>>
              /\ \A i, j \in DOMAIN segs :
                    ports[i] # ports[j] => segs[i].rank_cmd # segs[j].rank_cmd

-----------------------------------------------------------------------------
(* The endpoints file and the launcher *)

\* the endpoints file with one host:port line per endpoint of a list
EndpointsArtifact(eps) ==
    [kind |-> "endpoints", instance |-> 0, port |-> 0, nodes |-> eps]

\* C26: launch_instances writes the endpoints file, one host:port line per
\* ready instance, and only after _wait_for_instances has returned: a launch
\* of one or more instances that has finished has written it, and on a run
\* whose wait does not return the file does not exist.
C26_ArtifactAfterBarrier ==
    /\ pc = "done" /\ endpoints # << >> => EndpointsArtifact(endpoints) \in fs
    /\ (\E f \in fs : f.kind = "endpoints") => pc \in {"returned", "done"}

-----------------------------------------------------------------------------
(* cli._build_config: config.load_config, config.merge_cli_args and         *)
(* config._normalize_models.  Of the fields of AegisConfig the model keeps  *)
(* the per-model ones that planning uses and the models list.               *)

\* _MODEL_FIELDS, as far as modelled
ModelFields == {"model", "instances", "tensor_parallel_size"}

\* the defaults of the dataclasses ModelConfig and AegisConfig
FieldDefaults == [model |-> "", instances |-> 1, tensor_parallel_size |-> 1]

\* the values a YAML file gives to the keys it has, and the values the
\* command line gives to the options it has
FileValues == [model |-> "file_model", instances |-> 2, tensor_parallel_size |-> 12]
CliValues == [model |-> "cli_model", instances |-> 3, tensor_parallel_size |-> 24]

\* the mappings that give the values of `values` to some of the fields
Given(values) == {[f \in S |-> values[f]] : S \in SUBSET ModelFields}

\* the entries of a `models` list in a YAML file
YamlModelEntries ==
    {[model |-> "list_model"], [model |-> "list_model", instances |-> 2]}

YamlFiles ==
    {[top |-> t, models |-> ms] :
        t \in Given(FileValues),
        ms \in {<< >>} \cup {<<e>> : e \in YamlModelEntries}}

\* a dataclass built from keyword arguments: the defaults for the others
WithDefaults(kw) ==
    [f \in ModelFields |-> IF f \in DOMAIN kw THEN kw[f] ELSE FieldDefaults[f]]

\* ModelConfig(**mc_fields)
ModelConfigOf(entry) == WithDefaults(entry)

\* AegisConfig(**filtered, models=model_configs)
AegisConfigOf(kw, model_configs) ==
    [top |-> WithDefaults(kw), models |-> model_configs]

\* _normalize_models: a models list that is set is left alone; otherwise a
\* top-level model becomes the one entry of the list
normalize_models(cfg) ==
    IF cfg.models # << >> THEN cfg
    ELSE IF cfg.top.model # ""
    THEN [cfg EXCEPT !.models = <<cfg.top>>]
    ELSE cfg

\* load_config
load_config(yaml) ==
    normalize_models(
        AegisConfigOf(yaml.top,
                      [k \in DOMAIN yaml.models |-> ModelConfigOf(yaml.models[k])]))

\* merge_cli_args: every field but `models` whose command-line value is not
\* None is set on the configuration
merge_cli_args(cfg, cli_args) ==
    [cfg EXCEPT !.top = [f \in ModelFields |->
                            IF f \in DOMAIN cli_args THEN cli_args[f] ELSE cfg.top[f]]]

BuildArgs ==
    [command : {"launch"}, has_config : BOOLEAN, yaml : YamlFiles,
     cli : Given(CliValues)]

InitBuild ==
    /\ NoLaunch
    /\ NoWait
    /\ NoCalls
    /\ NoMonitor
    /\ NoJob
    /\ EmptyRegistry
    /\ now = 0
    /\ ssh_conn = NoConnection
    /\ args \in BuildArgs
    /\ cli_pc = "start"
    /\ cli = [config |-> None]

\* `config = load_config(args.config)` or `config = AegisConfig()`
BuildLoad ==
    /\ cli_pc = "start"
    /\ cli' = [config |-> IF args.has_config THEN load_config(args.yaml)
                          ELSE AegisConfigOf(<< >>, << >>)]
    /\ cli_pc' = "loaded"
    /\ UNCHANGED <<args, ssh_conn>>
    /\ CliFrame

\* `merge_cli_args(config, args)`
BuildMerge ==
    /\ cli_pc = "loaded"
    /\ cli' = [config |-> merge_cli_args(cli.config, args.cli)]
    /\ cli_pc' = "merged"
    /\ UNCHANGED <<args, ssh_conn>>
    /\ CliFrame

\* `_normalize_models(config)`; the configuration is returned
BuildNormalize ==
    /\ cli_pc = "merged"
    /\ cli' = [config |-> normalize_models(cli.config)]
    /\ cli_pc' = "built"
    /\ UNCHANGED <<args, ssh_conn>>
    /\ CliFrame

NextBuild ==
    \/ BuildLoad
    \/ BuildMerge
    \/ BuildNormalize

SpecBuild == InitBuild /\ [][NextBuild]_vars

\* the configuration file names a model
FileNamesModel ==
    args.has_config /\ ("model" \in DOMAIN args.yaml.top \/ args.yaml.models # << >>)

\* C28: in the configuration that _build_config returns, a per-model value
\* given on the command line (--model, --instances, --tensor-parallel-size)
\* is the value of every model entry used for planning, also when the
\* configuration file names a model.
C28_CliOverridesFile ==
    cli_pc = "built" /\ FileNamesModel =>
        \A f \in DOMAIN args.cli :
            \A k \in DOMAIN cli.config.models :
                cli.config.models[k][f] = args.cli[f]

-----------------------------------------------------------------------------
(* The heartbeat interval and the TTL of the healthy query *)

\* run_heartbeat_all's default `interval` and get_healthy_services' default
\* `timeout_seconds`, both in seconds
HeartbeatInterval == 30
HealthyTimeout == 30

\* one tick of SpecHeartbeat is one sleep of the monitor: the default TTL in
\* ticks
HealthyTimeoutTicks == HealthyTimeout \div HeartbeatInterval

\* every probe of the service so far answered 200, and there was one
AlwaysAnswered200(id) ==
    /\ classified[id] # << >>
    /\ \A k \in DOMAIN classified[id] : classified[id][k] = HEALTHY

\* the stored status of the service is healthy
StoredHealthy(id) ==
    \E service \in list_services(Reg, NoneStr, HEALTHY) : service.service_id = id

\* C30: with the default interval of the monitor and the default TTL of the
\* healthy query, a service whose every probe answered 200 is in the answer
\* of get_healthy_services at every moment after its first successful probe
\* was recorded, between two cycles as well.
C30_HealthyStaysListed ==
    \A id \in Range(hb_endpoints) :
        AlwaysAnswered200(id) /\ StoredHealthy(id) =>
            \E service \in get_healthy_services(Reg, NoneStr, HealthyTimeoutTicks, now) :
                service.service_id = id

====
